---- MODULE Spec2Model ----
(***************************************************************************)
(* The CDP correlation engine of chrome-mcp (src/src/cdp.rs): the shared   *)
(* id counter, the pending-request table, the background reader spawned by *)
(* connect_to_tab, and send_command / send_message as they are written.    *)
(* A CdpClient and its clones share message_id and pending_requests; each  *)
(* holds its own tab_id.  The peer (the browser) is the environment: it    *)
(* answers only ids that were written to a socket, and may also send       *)
(* events, undecodable text, non-text messages, a close frame or nothing.  *)
(* Spec follows a client and its clones through the lifetime of one       *)
(* connection (connect_to_tab opens a socket at most once); ConnSpec       *)
(* follows Browser.cdp alone across connections; ReaderSpec follows the    *)
(* reader task message by message; WaitSpec follows one call of            *)
(* Browser::wait_for_condition (src/src/browser.rs) in logical time.       *)
(* LocSpec follows the tools/call handler of src/src/mcp.rs through        *)
(* Browser::click, hover and navigate and the searches of                  *)
(* src/src/accessibility.rs on one page; SearchSpec runs the searches and  *)
(* the single strategies on every tree up to MaxNodes nodes; TabSpec       *)
(* switches a Browser between tabs while targets are resolved; ClickSpec   *)
(* follows CdpClient::click_at command by command; FrameSpec takes one     *)
(* CdpMessage through serde and back; ServeSpec follows the loop of        *)
(* McpServer::run_stdio line by line.                                      *)
(***************************************************************************)
EXTENDS Integers, Sequences, FiniteSets, TLC

\* ---- bounds of the model ----
NumClients == 2
\* send_command calls issued by users (enable_domains' calls come on top)
MaxCommands == 1
\* sockets opened by connect_to_tab where a client is followed across
\* connections
MaxConnects == 2
\* messages the peer sends on the connect socket where the reader is
\* followed message by message
MaxStream == 3
\* the longest deadline given to wait_for_condition, in half polling
\* intervals
MaxTimeoutSteps == 5

\* ---- values ----
\* CdpMessage.id = None (an event); ids are u64, so -1 is no id of the program
NoId == -1
\* Browser.cdp, the client built by CdpClient::new; the others are its clones
BrowserCdp == 1
Clients == 1..NumClients
NoTab == "none"
Tabs == {"t1"}
\* the domains enable_domains enables, in order
Domains == <<"Runtime", "Page", "DOM", "Input", "Network", "Accessibility">>
NumDomains == Len(Domains)

Errors == {"none", "boom"}
Results == {"absent", "v"}
\* a decoded CdpMessage as the peer sends it: a reply, or an event (no id)
EventFrame == [id |-> NoId, error |-> "none", result |-> "absent"]
ReplyFrames(ids) == [id : ids, error : Errors, result : Results]
\* the peer answers requests it has received; it invents no ids
PeerFrames(written) == ReplyFrames(written) \cup {EventFrame}

NoOutcome == [kind |-> "none", val |-> ""]
Err(k) == [kind |-> k, val |-> ""]
EmptyCall == [id |-> 0, chan |-> <<>>, outcome |-> NoOutcome, afterClose |-> FALSE]

VARIABLES
    message_id,        \* Arc<Mutex<u64>>: the next id
    pending_requests,  \* Arc<Mutex<HashMap>>: ids with a registered sender
    tab_id,            \* per client: Option<String>
    clients,           \* the clients constructed so far
    pc,                \* per client: where its send_command stands
    call,              \* per client: the call in progress
    domain_ix,         \* enable_domains' position in Domains (0: not enabling)
    readers_running,   \* reader tasks spawned and still in their loop
    readers_stopped,   \* reader tasks that left their loop
    wire,              \* ids of the request frames written to a socket
    commands,          \* send_command calls issued by users so far
    assigned,          \* the ids in the order the counter was read
    activation,        \* enable_domains of the last opened connection:
                       \* "none", "running", "done" (Ok) or "failed" (Err)
    current_tab_id     \* Browser.current_tab_id: Option<String>

\* the socket opened by connect_to_tab, seen from its reader task
VARIABLES
    rd_stream,         \* the messages the peer still sends on that socket
    rd_read            \* the messages the reader has taken from it, in order

rd_vars == <<rd_stream, rd_read>>

\* one call of Browser::wait_for_condition
VARIABLES
    w_pc,              \* where the call stands ("off": no call)
    w_cond,            \* the WaitCondition
    w_timeout_ms,      \* the timeout_ms argument
    w_idle_ms,         \* the argument of WaitCondition::NetworkIdle
    w_now,             \* milliseconds since the call began
    w_wake,            \* when the sleep in progress ends
    w_evals,           \* the outcomes of the ticks completed, in order
    w_eval_at,         \* when the last tick completed
    w_result,          \* what the call returned
    w_end              \* when it returned

w_vars == <<w_pc, w_cond, w_timeout_ms, w_idle_ms, w_now, w_wake, w_evals,
            w_eval_at, w_result, w_end>>

\* one Browser with its AccessibilityManager, the page it drives, and the
\* tools/call being served
VARIABLES
    l_tree,            \* the accessibility tree of the page
    l_sel,             \* what the page answers to DOM.querySelectorAll
    l_query,           \* the target (selector, text or role) asked for
    l_gen,             \* Page.navigate commands issued so far
    l_cache,           \* AccessibilityManager.cached_tree
    l_op,              \* the operation that ran last
    l_tried,           \* the strategies it tried, with what each found
    l_cmds,            \* the commands it issued, in order
    l_result,          \* what it returned
    l_req,             \* the id of the tools/call request served last
    l_response         \* the response written for it

l_vars == <<l_tree, l_sel, l_query, l_gen, l_cache, l_op, l_tried, l_cmds,
            l_result, l_req, l_response>>

\* one CdpMessage through serde
VARIABLES
    f_pc,              \* "new", "encoded" or "decoded"
    f_msg,             \* the message
    f_json,            \* the JSON document it serializes to
    f_back             \* the message deserialized from that document

f_vars == <<f_pc, f_msg, f_json, f_back>>

\* McpServer::run_stdio
VARIABLES
    s_pc,              \* where the loop stands ("off": no server runs)
    s_read,            \* the lines read from stdin, in order
    s_out,             \* the response about to be written, if any
    s_stdout,          \* the responses written and flushed, in order, each
                       \* with the number of the line it answers
    s_browser          \* the numbers of the lines whose handling called
                       \* the Browser

s_vars == <<s_pc, s_read, s_out, s_stdout, s_browser>>

cdp_vars == <<message_id, pending_requests, tab_id, clients, pc, call,
              domain_ix, readers_running, readers_stopped, wire, commands,
              assigned, activation, current_tab_id>>

vars == <<cdp_vars, rd_vars, w_vars, l_vars, f_vars, s_vars>>

\* what the steps of each part leave alone
beside_cdp == <<rd_vars, w_vars, l_vars, f_vars, s_vars>>
beside_wait == <<cdp_vars, rd_vars, l_vars, f_vars, s_vars>>

\* the receiver half of a call lives from its creation to the call's return
InFlight == {"send", "write", "read", "wait"}
Receiver(i) == {c \in Clients : pc[c] \in InFlight /\ call[c].id = i}
Closed == readers_running = 0 /\ readers_stopped > 0
\* the written ids whose reply can still meet a table entry or a live receiver;
\* a reply to any other id meets neither
Answerable == {i \in wire : i \in pending_requests \/ Receiver(i) # {}}

\* ---- the accessibility tree and the targets looked up in it ----

\* the most nodes in an accessibility tree searched on its own
MaxNodes == 3

\* the most nodes in the accessibility tree of a page that is operated on
MaxPageNodes == 1

\* the most Page.navigate commands followed
MaxNavs == 1

\* the largest coordinate clicked at where click_at is followed command by
\* command
MaxCoord == 4

\* the most lines read from stdin
MaxLines == 2

\* Option<String>: a string is its sequence of characters
None == [some |-> FALSE, str |-> <<>>]

Some(s) == [some |-> TRUE, str |-> s]

\* Option<BoundingBox>, in CSS pixels
NoBounds == [some |-> FALSE, x |-> 0, y |-> 0, width |-> 0, height |-> 0]

Box(x, y, w, h) == [some |-> TRUE, x |-> x, y |-> y, width |-> w, height |-> h]

\* char::to_lowercase on the characters used here
LowerChar(c) ==
    CASE c = "B" -> "b"
      [] c = "I" -> "i"
      [] c = "K" -> "k"
      [] c = "L" -> "l"
      [] c = "O" -> "o"
      [] c = "T" -> "t"
      [] OTHER -> c

\* str::to_lowercase
to_lowercase(s) == [i \in 1..Len(s) |-> LowerChar(s[i])]

\* str::contains: the pattern occurs at some offset (the empty one at 0)
contains(s, pat) ==
    \E i \in 0..(Len(s) - Len(pat)) : SubSeq(s, i + 1, i + Len(pat)) = pat

\* what a node of the tree can be: a button with a name and an odd width, a
\* static text with the same name, a link known by its description, a tab
\* known by its value and without a box, and a node without any attribute
NodeKinds ==
    { [role |-> Some(<<"b", "t">>), name |-> Some(<<"O", "k">>),
       description |-> None, value |-> None,
       clickable |-> TRUE, bounds |-> Box(20, 40, 11, 6)],
      [role |-> Some(<<"t", "x">>), name |-> Some(<<"o", "k">>),
       description |-> None, value |-> None,
       clickable |-> FALSE, bounds |-> Box(4, 4, 8, 2)],
      [role |-> Some(<<"L", "i">>), name |-> None,
       description |-> Some(<<"g", "O", "K">>), value |-> None,
       clickable |-> TRUE, bounds |-> Box(0, 2, 6, 3)],
      [role |-> Some(<<"x", "l", "I">>), name |-> None,
       description |-> None, value |-> Some(<<"o", "k", "s">>),
       clickable |-> TRUE, bounds |-> NoBounds],
      [role |-> None, name |-> None,
       description |-> None, value |-> None,
       clickable |-> FALSE, bounds |-> NoBounds] }

\* AccessibilityNode: node_id numbers the nodes as the browser lists them,
\* parents before children and siblings left to right
Node(id, k, cs) ==
    [node_id |-> id, role |-> k.role, name |-> k.name,
     description |-> k.description, value |-> k.value,
     clickable |-> k.clickable, bounds |-> k.bounds, children |-> cs]

RECURSIVE TreesFrom(_, _), ForestsFrom(_, _)

\* the sequences of trees with m nodes in all, numbered from first
ForestsFrom(m, first) ==
    IF m = 0 THEN {<<>>}
    ELSE UNION { { <<t>> \o f : t \in TreesFrom(k, first),
                                f \in ForestsFrom(m - k, first + k) }
                 : k \in 1..m }

\* the trees with n nodes, numbered from first
TreesFrom(n, first) ==
    { Node(first, k, f) : k \in NodeKinds, f \in ForestsFrom(n - 1, first + 1) }

Trees == UNION { TreesFrom(n, 1) : n \in 1..MaxNodes }

PageTrees == UNION { TreesFrom(n, 1) : n \in 1..MaxPageNodes }

\* the targets: a text in another case than the page writes it, a role in
\* another case, and a string the page does not hold
Queries == { <<"o", "K">>, <<"L", "I">>, <<"z", "z">> }

\* DOM.querySelectorAll's outcome: the command fails, or answers nodeIds
SelAnswers ==
    { [ok |-> FALSE, ids |-> <<>>],
      [ok |-> TRUE, ids |-> <<>>],
      [ok |-> TRUE, ids |-> <<7>>],
      [ok |-> TRUE, ids |-> <<9, 7>>] }

\* cached_tree: None, or the tree fetched when the page was at `gen`, from
\* the tab the Browser's client was connected to
NoTree == [some |-> FALSE, gen |-> 0, tab |-> NoTab]

Snapshot(g) == [some |-> TRUE, gen |-> g, tab |-> tab_id[BrowserCdp]]

\* one command sent to the browser; the mouse events carry their point, in
\* half pixels so that the half of an odd width is exact
Cmd(m) == [method |-> m, type |-> "", x |-> 0, y |-> 0]

Mouse(t, p) ==
    [method |-> "Input.dispatchMouseEvent", type |-> t, x |-> p.x, y |-> p.y]

\* ElementRef
NoRef ==
    [via |-> "none", node |-> 0, selector |-> FALSE, bounds |-> NoBounds]

\* the value of an operation: Ok with what it found, or the error
NoResult == [kind |-> "none", ref |-> NoRef, nodes |-> <<>>]

Ok(ref) == [kind |-> "ok", ref |-> ref, nodes |-> <<>>]

OkNodes(ns) == [kind |-> "ok", ref |-> NoRef, nodes |-> ns]

Failed(e) == [kind |-> e, ref |-> NoRef, nodes |-> <<>>]

\* McpMessage written back, and none
NoResponse ==
    [id |-> 0, result |-> None,
     error |-> [some |-> FALSE, code |-> 0, message |-> <<>>]]

\* no page is operated on
NoPage ==
    /\ l_tree = <<>>
    /\ l_sel = <<>>
    /\ l_query = <<>>
    /\ l_gen = 0
    /\ l_cache = <<>>
    /\ l_op = "none"
    /\ l_tried = <<>>
    /\ l_cmds = <<>>
    /\ l_result = <<>>
    /\ l_req = 0
    /\ l_response = <<>>

\* ---- CdpMessage and the JSON it is written as ----

\* serde_json::Value: null, a number, a string, or an object given by its
\* members in order
JNull == [t |-> "null", v |-> <<>>]

JNum(n) == [t |-> "num", v |-> <<n>>]

JStr(str) == [t |-> "str", v |-> <<str>>]

JObj(members) == [t |-> "obj", v |-> members]

\* the structured values carried as params, result or error data: flat,
\* nested, with a null member, and null itself
JsonValues ==
    { JNull,
      JNum(7),
      JObj(<<>>),
      JObj(<< <<"url", JStr("about:blank")>> >>),
      JObj(<< <<"root", JObj(<< <<"nodeId", JNum(1)>>,
                                 <<"frame", JNull>> >>)>>,
              <<"depth", JNum(2)>> >>) }

\* Option<T>
Absent == [some |-> FALSE, val |-> JNull]

Present(val) == [some |-> TRUE, val |-> val]

OptValues == {Absent} \cup { Present(j) : j \in JsonValues }

\* Option<CdpError>
NoError ==
    [some |-> FALSE, code |-> 0, message |-> "", data |-> Absent]

CdpErrors ==
    { [some |-> TRUE, code |-> c, message |-> "Cannot find context", data |-> d]
          : c \in {-32000}, d \in OptValues }

\* CdpMessage
CdpMessages ==
    [id : {Absent, Present(JNum(1))},
     method : {Absent, Present(JStr("Page.navigate"))},
     params : OptValues,
     result : OptValues,
     error : {NoError} \cup CdpErrors]

EmptyMessage ==
    [id |-> Absent, method |-> Absent, params |-> Absent, result |-> Absent,
     error |-> NoError]

\* no message is serialized
NoFrame ==
    /\ f_pc = "off"
    /\ f_msg = <<>>
    /\ f_json = <<>>
    /\ f_back = <<>>

\* no server runs
NoServer ==
    /\ s_pc = "off"
    /\ s_read = <<>>
    /\ s_out = <<>>
    /\ s_stdout = <<>>
    /\ s_browser = {}

\* no wait_for_condition call is followed
NoWait ==
    /\ w_pc = "off"
    /\ w_cond = "PageLoad"
    /\ w_timeout_ms = 0
    /\ w_idle_ms = 0
    /\ w_now = 0
    /\ w_wake = 0
    /\ w_evals = <<>>
    /\ w_eval_at = 0
    /\ w_result = [kind |-> "none", timeout |-> 0]
    /\ w_end = 0

\* CdpClient::new: the counter at 1, an empty table, no socket, no tab
Constructed ==
    /\ message_id = 1
    /\ pending_requests = {}
    /\ tab_id = [c \in Clients |-> NoTab]
    /\ clients = {BrowserCdp}
    /\ pc = [c \in Clients |-> "idle"]
    /\ call = [c \in Clients |-> EmptyCall]
    /\ domain_ix = 0
    /\ readers_running = 0
    /\ readers_stopped = 0
    /\ wire = {}
    /\ commands = 0
    /\ assigned = <<>>
    /\ activation = "none"
    /\ current_tab_id = NoTab

Init ==
    /\ Constructed
    /\ rd_stream = <<>>
    /\ rd_read = <<>>
    /\ NoWait
    /\ NoPage
    /\ NoFrame
    /\ NoServer

\* ---- helpers translated from the code ----

\* the counter left as it was read
NextMessageIdStuck(cur) == cur

\* send_command, `*counter += 1`
NextMessageId(cur) == cur + 1

\* the frame handed over with no sender stored
RegisterWaiterSkipped(table, i) == table

\* send_command, `pending_requests.lock().unwrap().insert(id, response_tx)`
RegisterWaiter(table, i) == table \cup {i}

\* `pending_requests.lock().unwrap().remove(&id)`: the entry for i leaves
TakeWaiter(table, i) == table \ {i}

\* the frame handed to whichever callers wait with an empty channel, in
\* arrival order instead of by id
DeliverInArrivalOrder(calls, live, i, f) ==
    [c \in Clients |->
        IF pc[c] \in {"send", "write", "read", "wait"} /\ calls[c].chan = <<>>
        THEN [calls[c] EXCEPT !.chan = Append(@, f)]
        ELSE calls[c]]

\* `sender.send(cdp_msg)`: the frame reaches the receiver of call i when that
\* receiver still lives; otherwise send fails and the frame is dropped
Deliver(calls, live, i, f) ==
    [c \in Clients |->
        IF c \in live /\ calls[c].id = i
        THEN [calls[c] EXCEPT !.chan = Append(@, f)]
        ELSE calls[c]]

\* a hand-off that waits until a receiver stands ready with an empty slot
SendWaitsForReceiver(calls, live) ==
    live # {} /\ \A c \in live : calls[c].chan = <<>>

\* `sender.send(..)` on an mpsc::unbounded_channel returns at once, with Ok
\* or, when the receiver is gone, with Err: the sender never waits
SendReturns(calls, live) == TRUE

\* the result read before the error object
InterpretResultFirst(f) ==
    IF f.result # "absent"
    THEN [kind |-> "ok", val |-> f.result]
    ELSE IF f.error # "none"
         THEN [kind |-> "protocol", val |-> f.error]
         ELSE [kind |-> "ok", val |-> "null"]

\* send_command's reading of the frame its waiter resolved with
Interpret(f) ==
    IF f.error # "none"
    THEN [kind |-> "protocol", val |-> f.error]
    ELSE [kind |-> "ok", val |-> IF f.result = "absent" THEN "null" ELSE f.result]

Finish(c, out) ==
    /\ pc' = [pc EXCEPT ![c] = "done"]
    /\ call' = [call EXCEPT ![c].outcome = out]

\* ---- construction ----

\* impl Clone for CdpClient: counter and table shared, tab_id copied
Clone(c) ==
    /\ c \notin clients
    /\ pc[BrowserCdp] = "idle"
    /\ clients' = clients \cup {c}
    /\ tab_id' = [tab_id EXCEPT ![c] = tab_id[BrowserCdp]]
    /\ UNCHANGED <<message_id, pending_requests, pc, call, domain_ix,
                   readers_running, readers_stopped, wire, commands, assigned>>
    /\ UNCHANGED <<activation, current_tab_id, beside_cdp>>

\* ---- connect_to_tab ----

\* list_tabs fails, the tab is unknown or has no debugger url, the url does
\* not parse, or connect_async fails: Err before any field is written
ConnectFails ==
    /\ pc[BrowserCdp] = "idle"
    /\ UNCHANGED vars

\* the socket opens: websocket and tab_id are set, start_message_loop spawns
\* a reader task, and enable_domains begins with the first domain
ConnectOpens(t) ==
    /\ pc[BrowserCdp] = "idle"
    /\ readers_running + readers_stopped = 0
    /\ tab_id' = [tab_id EXCEPT ![BrowserCdp] = t]
    /\ readers_running' = readers_running + 1
    /\ domain_ix' = 1
    /\ pc' = [pc EXCEPT ![BrowserCdp] = "enable"]
    /\ call' = [call EXCEPT ![BrowserCdp] = EmptyCall]
    /\ activation' = "running"
    /\ UNCHANGED <<message_id, pending_requests, clients, readers_stopped,
                   wire, commands, assigned>>
    /\ UNCHANGED <<current_tab_id, beside_cdp>>

\* ---- send_command ----

\* the counter is read and advanced under its lock
AllocId(c) ==
    /\ c \in clients
    /\ \/ pc[c] = "enable" /\ UNCHANGED commands
       \/ pc[c] = "idle" /\ commands < MaxCommands /\ commands' = commands + 1
    /\ call' = [call EXCEPT ![c] = [EmptyCall EXCEPT !.id = message_id,
                                                     !.afterClose = Closed]]
    /\ assigned' = Append(assigned, message_id)
    /\ message_id' = NextMessageId(message_id)
    /\ pc' = [pc EXCEPT ![c] = "insert"]
    /\ UNCHANGED <<pending_requests, tab_id, clients, domain_ix,
                   readers_running, readers_stopped, wire>>
    /\ UNCHANGED <<activation, current_tab_id, beside_cdp>>

\* the channel is created and its sender stored under the id
InsertWaiter(c) ==
    /\ pc[c] = "insert"
    /\ pending_requests' = RegisterWaiter(pending_requests, call[c].id)
    /\ pc' = [pc EXCEPT ![c] = "send"]
    /\ UNCHANGED <<message_id, tab_id, clients, call, domain_ix,
                   readers_running, readers_stopped, wire, commands, assigned>>
    /\ UNCHANGED <<activation, current_tab_id, beside_cdp>>

\* send_message without a tab: nothing is sent, Ok(()) is returned
SendNoTab(c) ==
    /\ pc[c] = "send"
    /\ tab_id[c] = NoTab
    /\ pc' = [pc EXCEPT ![c] = "wait"]
    /\ UNCHANGED <<message_id, pending_requests, tab_id, clients, call,
                   domain_ix, readers_running, readers_stopped, wire, commands, assigned>>
    /\ UNCHANGED <<activation, current_tab_id, beside_cdp>>

\* send_message with a tab: list_tabs (the request or its decoding fails),
\* find the tab, parse the url, open a fresh socket; each may fail with `?`;
\* a tab without url returns Ok(())
SendSetup(c) ==
    /\ pc[c] = "send"
    /\ tab_id[c] # NoTab
    /\ UNCHANGED <<message_id, pending_requests, tab_id, clients, domain_ix,
                   readers_running, readers_stopped, wire, commands, assigned>>
    /\ \/ \E k \in {"conn", "bad_tab_list", "tab_not_found", "url", "ws"} :
             Finish(c, Err(k))
       \/ pc' = [pc EXCEPT ![c] = "wait"] /\ UNCHANGED call
       \/ pc' = [pc EXCEPT ![c] = "write"] /\ UNCHANGED call
    /\ UNCHANGED <<activation, current_tab_id, beside_cdp>>

\* `ws_stream.send(Message::Text(json_msg)).await?` on the fresh socket
WriteFrame(c) ==
    /\ pc[c] = "write"
    /\ UNCHANGED <<message_id, pending_requests, tab_id, clients, domain_ix,
                   readers_running, readers_stopped, commands, assigned>>
    /\ \/ Finish(c, Err("ws")) /\ UNCHANGED wire
       \/ /\ wire' = wire \cup {call[c].id}
          /\ pc' = [pc EXCEPT ![c] = "read"]
          /\ UNCHANGED call
    /\ UNCHANGED <<activation, current_tab_id, beside_cdp>>

\* `ws_stream.next().await` on the fresh socket: the first message the peer
\* sends there.  A decoded text frame is handed to the call's own waiter
\* whatever id it carries.
ReadText(c, f) ==
    /\ pc[c] = "read"
    /\ f \in PeerFrames(Answerable)
    /\ IF call[c].id \in pending_requests
       THEN /\ pending_requests' = TakeWaiter(pending_requests, call[c].id)
            /\ call' = [call EXCEPT ![c].chan = Append(@, f)]
       ELSE UNCHANGED <<pending_requests, call>>
    /\ pc' = [pc EXCEPT ![c] = "wait"]
    /\ UNCHANGED <<message_id, tab_id, clients, domain_ix, readers_running,
                   readers_stopped, wire, commands, assigned>>
    /\ UNCHANGED <<activation, current_tab_id, beside_cdp>>

\* the stream ends (None) or yields a non-text message: Ok(()) without
\* touching the table; a read error or undecodable text returns Err
ReadOther(c) ==
    /\ pc[c] = "read"
    /\ UNCHANGED <<message_id, pending_requests, tab_id, clients, domain_ix,
                   readers_running, readers_stopped, wire, commands, assigned>>
    /\ \/ pc' = [pc EXCEPT ![c] = "wait"] /\ UNCHANGED call
       \/ \E k \in {"ws", "json"} : Finish(c, Err(k))
    /\ UNCHANGED <<activation, current_tab_id, beside_cdp>>

\* `response_rx.recv()` yields the frame in the channel
Recv(c) ==
    /\ pc[c] = "wait"
    /\ call[c].chan # <<>>
    /\ Finish(c, Interpret(Head(call[c].chan)))
    /\ UNCHANGED <<message_id, pending_requests, tab_id, clients, domain_ix,
                   readers_running, readers_stopped, wire, commands, assigned>>
    /\ UNCHANGED <<activation, current_tab_id, beside_cdp>>

\* 30 s pass with the channel empty: Timeout is returned, the receiver dropped
Timeout(c) ==
    /\ pc[c] = "wait"
    /\ call[c].chan = <<>>
    /\ Finish(c, Err("timeout"))
    /\ UNCHANGED <<message_id, pending_requests, tab_id, clients, domain_ix,
                   readers_running, readers_stopped, wire, commands, assigned>>
    /\ UNCHANGED <<activation, current_tab_id, beside_cdp>>

\* wait_for_condition's deadline drops the command future of Browser.cdp
\* while it is suspended at one of its await points
Cancel(c) ==
    /\ c = BrowserCdp
    /\ domain_ix = 0
    /\ pc[c] \in InFlight
    /\ pc[c] = "wait" => call[c].chan = <<>>
    /\ Finish(c, Err("cancelled"))
    /\ UNCHANGED <<message_id, pending_requests, tab_id, clients, domain_ix,
                   readers_running, readers_stopped, wire, commands, assigned>>
    /\ UNCHANGED <<activation, current_tab_id, beside_cdp>>

\* the loop of enable_domains goes on to the next domain whatever the call
\* returned
EnableGoesOnAnyway(out, ix) == ix < NumDomains

\* `self.send_command(&format!("{}.enable", domain), None).await?` inside
\* `for domain in domains`: an Ok goes on to the next domain, if there is one
EnableGoesOn(out, ix) == out.kind = "ok" /\ ix < NumDomains

\* the caller has its result.  Inside enable_domains an Ok moves to the next
\* domain and an Err leaves connect_to_tab with that error; after the last
\* domain connect_to_tab returns Ok, and Browser::connect or switch_to_tab,
\* past its `?`, records the tab.
Return(c) ==
    /\ pc[c] = "done"
    /\ call' = [call EXCEPT ![c] = EmptyCall]
    /\ IF c = BrowserCdp /\ domain_ix > 0
       THEN IF EnableGoesOn(call[c].outcome, domain_ix)
            THEN /\ domain_ix' = domain_ix + 1
                 /\ pc' = [pc EXCEPT ![c] = "enable"]
                 /\ UNCHANGED <<activation, current_tab_id>>
            ELSE /\ domain_ix' = 0
                 /\ pc' = [pc EXCEPT ![c] = "idle"]
                 /\ activation' = IF call[c].outcome.kind = "ok"
                                  THEN "done" ELSE "failed"
                 /\ current_tab_id' = IF call[c].outcome.kind = "ok"
                                      THEN tab_id[c] ELSE current_tab_id
       ELSE /\ pc' = [pc EXCEPT ![c] = "idle"]
            /\ UNCHANGED <<domain_ix, activation, current_tab_id>>
    /\ UNCHANGED <<message_id, pending_requests, tab_id, clients,
                   readers_running, readers_stopped, wire, commands, assigned>>
    /\ UNCHANGED beside_cdp

\* ---- the reader task spawned by start_message_loop ----

\* a decoded frame with an id: the entry is removed and the frame sent to it
ReaderDispatch(f) ==
    /\ readers_running > 0
    /\ f \in ReplyFrames(Answerable)
    /\ f.id \in pending_requests
    /\ SendReturns(call, Receiver(f.id))
    /\ pending_requests' = TakeWaiter(pending_requests, f.id)
    /\ call' = Deliver(call, Receiver(f.id), f.id, f)
    /\ UNCHANGED <<message_id, tab_id, clients, pc, domain_ix, readers_running,
                   readers_stopped, wire, commands, assigned>>
    /\ UNCHANGED <<activation, current_tab_id, beside_cdp>>

\* an id not in the table, an event, undecodable text, or a non-text
\* message: nothing changes and the loop goes on
ReaderIgnores ==
    /\ readers_running > 0
    /\ UNCHANGED vars

\* a close frame, a read error or the end of the stream: the loop is left
ReaderStops ==
    /\ readers_running > 0
    /\ readers_running' = readers_running - 1
    /\ readers_stopped' = readers_stopped + 1
    /\ UNCHANGED <<message_id, pending_requests, tab_id, clients, pc, call,
                   domain_ix, wire, commands, assigned>>
    /\ UNCHANGED <<activation, current_tab_id, beside_cdp>>

Next ==
    \/ \E c \in Clients : Clone(c)
    \/ ConnectFails
    \/ \E t \in Tabs : ConnectOpens(t)
    \/ \E c \in Clients : AllocId(c)
    \/ \E c \in Clients : InsertWaiter(c)
    \/ \E c \in Clients : SendNoTab(c)
    \/ \E c \in Clients : SendSetup(c)
    \/ \E c \in Clients : WriteFrame(c)
    \/ \E c \in Clients : \E f \in PeerFrames(Answerable) : ReadText(c, f)
    \/ \E c \in Clients : ReadOther(c)
    \/ \E c \in Clients : Recv(c)
    \/ \E c \in Clients : Timeout(c)
    \/ \E c \in Clients : Cancel(c)
    \/ \E c \in Clients : Return(c)
    \/ \E f \in ReplyFrames(Answerable) : ReaderDispatch(f)
    \/ ReaderIgnores
    \/ ReaderStops

Spec == Init /\ [][Next]_vars

\* the steps of a call that the client's own runtime and timers carry out;
\* what the peer sends on a socket, and when, is not the program's to decide
FairSpec ==
    /\ Spec
    /\ \A c \in Clients :
          WF_vars(InsertWaiter(c) \/ SendNoTab(c) \/ SendSetup(c)
                  \/ WriteFrame(c) \/ Recv(c) \/ Timeout(c))

\* ---- one client across connections ----

\* connect_to_tab on a client whose earlier call opened a socket: the code is
\* the same whatever the client's state, so a socket opens, websocket and
\* tab_id are overwritten, another reader is spawned (the earlier one keeps
\* its socket) and enable_domains runs again
ConnectAgain(t) ==
    /\ pc[BrowserCdp] = "idle"
    /\ readers_running + readers_stopped \in 1..(MaxConnects - 1)
    /\ tab_id' = [tab_id EXCEPT ![BrowserCdp] = t]
    /\ readers_running' = readers_running + 1
    /\ domain_ix' = 1
    /\ pc' = [pc EXCEPT ![BrowserCdp] = "enable"]
    /\ call' = [call EXCEPT ![BrowserCdp] = EmptyCall]
    /\ activation' = "running"
    /\ UNCHANGED <<message_id, pending_requests, clients, readers_stopped,
                   wire, commands, assigned>>
    /\ UNCHANGED <<current_tab_id, beside_cdp>>

\* Browser.cdp alone (no clone is made), connecting as often as it likes
ConnNext ==
    \/ ConnectFails
    \/ \E t \in Tabs : ConnectOpens(t)
    \/ \E t \in Tabs : ConnectAgain(t)
    \/ \E c \in Clients : AllocId(c)
    \/ \E c \in Clients : InsertWaiter(c)
    \/ \E c \in Clients : SendNoTab(c)
    \/ \E c \in Clients : SendSetup(c)
    \/ \E c \in Clients : WriteFrame(c)
    \/ \E c \in Clients : \E f \in PeerFrames(Answerable) : ReadText(c, f)
    \/ \E c \in Clients : ReadOther(c)
    \/ \E c \in Clients : Recv(c)
    \/ \E c \in Clients : Timeout(c)
    \/ \E c \in Clients : Cancel(c)
    \/ \E c \in Clients : Return(c)
    \/ \E f \in ReplyFrames(Answerable) : ReaderDispatch(f)
    \/ ReaderIgnores
    \/ ReaderStops

ConnSpec == Init /\ [][ConnNext]_vars

\* ---- the reader task, message by message ----

\* what `stream.next().await` yields: Ok(Message::Text) that decodes to a
\* CdpMessage, text that does not decode, another Ok message (binary, ping,
\* pong), Ok(Message::Close), or Err
StreamText(f) == [kind |-> "text", frame |-> f]
StreamOther(k) == [kind |-> k, frame |-> EventFrame]
\* the ids on the stream: the last enable call's (answered long ago) and
\* those of the commands in flight
RdIds == NumDomains..(NumDomains + NumClients)
RdFrames == [id : RdIds, error : {"none"}, result : {"v"}] \cup {EventFrame}
StreamMessages ==
    {StreamText(f) : f \in RdFrames}
        \cup {StreamOther(k) : k \in {"bad_text", "binary", "close", "error"}}
Streams == UNION {[1..n -> StreamMessages] : n \in 0..MaxStream}

\* a connected client and its clones, each with a command written and
\* waiting for its reply
ReaderInit ==
    /\ message_id = NumDomains + NumClients + 1
    /\ pending_requests = {NumDomains + c : c \in Clients}
    /\ tab_id = [c \in Clients |-> "t1"]
    /\ clients = Clients
    /\ pc = [c \in Clients |-> "wait"]
    /\ call = [c \in Clients |-> [EmptyCall EXCEPT !.id = NumDomains + c]]
    /\ domain_ix = 0
    /\ readers_running = 1
    /\ readers_stopped = 0
    /\ wire = 1..(NumDomains + NumClients)
    /\ commands = NumClients
    /\ assigned = [k \in 1..(NumDomains + NumClients) |-> k]
    /\ activation = "done"
    /\ current_tab_id = "t1"
    /\ rd_stream \in Streams
    /\ rd_read = <<>>
    /\ NoWait
    /\ NoPage
    /\ NoFrame
    /\ NoServer

\* `if let Some(id) = cdp_msg.id { if let Some(sender) = ...remove(&id)`:
\* the message is a decoded frame with an id that has a table entry
ReaderResolves(table, m) ==
    m.kind = "text" /\ m.frame.id # NoId /\ m.frame.id \in table

\* a frame whose id has no entry empties the table
ReaderTableResetOnUnknown(table, m) ==
    IF ReaderResolves(table, m)
    THEN TakeWaiter(table, m.frame.id)
    ELSE IF m.kind = "text" /\ m.frame.id # NoId THEN {} ELSE table

\* the table after the reader handled m
ReaderTable(table, m) ==
    IF ReaderResolves(table, m) THEN TakeWaiter(table, m.frame.id) ELSE table

\* text that does not decode ends the loop as well
ReaderLeavesOnBadText(m) == m.kind \notin {"close", "error", "bad_text"}

\* `break` on Ok(Message::Close) and on Err; every other arm goes round
ReaderGoesOn(m) == m.kind \notin {"close", "error"}

\* one turn of `while let Some(msg) = stream.next().await`
ReaderTakes ==
    /\ readers_running > 0
    /\ rd_stream # <<>>
    /\ LET m == Head(rd_stream) IN
         /\ ReaderResolves(pending_requests, m) =>
                SendReturns(call, Receiver(m.frame.id))
         /\ rd_stream' = Tail(rd_stream)
         /\ rd_read' = Append(rd_read, m)
         /\ pending_requests' = ReaderTable(pending_requests, m)
         /\ call' = IF ReaderResolves(pending_requests, m)
                    THEN Deliver(call, Receiver(m.frame.id), m.frame.id, m.frame)
                    ELSE call
         /\ IF ReaderGoesOn(m)
            THEN UNCHANGED <<readers_running, readers_stopped>>
            ELSE /\ readers_running' = readers_running - 1
                 /\ readers_stopped' = readers_stopped + 1
    /\ UNCHANGED <<message_id, tab_id, clients, pc, domain_ix, wire, commands,
                   assigned, activation, current_tab_id, w_vars, l_vars,
                   f_vars, s_vars>>

ReaderNext ==
    \/ ReaderTakes
    \/ \E c \in Clients : Recv(c)
    \/ \E c \in Clients : Timeout(c)

ReaderSpec == ReaderInit /\ [][ReaderNext]_vars

\* ---- Browser::wait_for_condition ----

\* `sleep(Duration::from_millis(100))` between two ticks
PollMs == 100
\* the step of the clock
HalfPoll == PollMs \div 2
Timeouts == {k * HalfPoll : k \in 0..MaxTimeoutSteps}
\* the clock is followed a little beyond the longest deadline
Horizon == (MaxTimeoutSteps + 2) * HalfPoll
\* ElementVisible stands for the conditions read through a helper that
\* returns Result<bool> or Result<String> (ElementClickable, TextPresent,
\* UrlMatches, UrlContains)
Conds == {"ElementPresent", "ElementVisible", "PageLoad", "NetworkIdle"}
\* what a tick finds: the condition holds; it does not hold (for
\* ElementPresent the selector matches nothing, Err(ElementNotFound)); or the
\* command under it returned Err
EvalOutcomes == {"true", "false", "error"}
TimeoutError(ms) == [kind |-> "timeout", timeout |-> ms]
WaitOk == [kind |-> "ok", timeout |-> 0]

WaitInit ==
    /\ Constructed
    /\ rd_stream = <<>>
    /\ rd_read = <<>>
    /\ w_pc = "poll"
    /\ w_cond \in Conds
    /\ w_timeout_ms \in Timeouts
    /\ w_idle_ms \in (IF w_cond = "NetworkIdle" THEN Timeouts ELSE {0})
    /\ w_now = 0
    /\ w_wake = 0
    /\ w_evals = <<>>
    /\ w_eval_at = 0
    /\ w_result = [kind |-> "none", timeout |-> 0]
    /\ w_end = 0
    /\ NoPage
    /\ NoFrame
    /\ NoServer

\* a tick that found the condition true sleeps and polls again
TickResultKeepsPolling(cond, out) ==
    IF out = "error" /\ cond # "ElementPresent" THEN "fail" ELSE "continue"

\* the arms of `match &condition`: `break` when the condition holds, `?`
\* leaves the block with the error, and ElementPresent's `.is_ok()` takes
\* every error for "not yet"
TickResult(cond, out) ==
    IF out = "true" THEN "break"
    ELSE IF out = "error" /\ cond # "ElementPresent" THEN "fail"
    ELSE "continue"

\* the deadline looked at only between two ticks
DeadlineBetweenTicks(at) == at \in {"sleep", "idle_sleep"}

\* `timeout(Duration::from_millis(timeout_ms), async { .. })`: the deadline
\* is looked at whenever the block is suspended at an await
DeadlineArmed(at) == at \in {"eval", "sleep", "idle_sleep"}

\* `match result { Ok(_) => Ok(()), Err(_) => Err(Timeout { timeout_ms }) }`
\* where result is Ok(Ok(())), Ok(Err(e)) or Err(Elapsed)
WaitResult(res, ms) ==
    IF res = "elapsed" THEN TimeoutError(ms) ELSE WaitOk

WaitReturns(res) ==
    /\ w_pc' = "returned"
    /\ w_result' = WaitResult(res, w_timeout_ms)
    /\ w_end' = w_now

\* NetworkIdle asks the browser like every other condition
PollsBrowserAlways(cond) == TRUE

\* the arms of the match that await a command of the browser; NetworkIdle's
\* arm awaits `sleep(idle_time)` only
PollsBrowser(cond) == cond # "NetworkIdle"

\* the top of the loop: NetworkIdle sleeps idle_time, every other condition
\* issues its command
WaitPolls ==
    /\ w_pc = "poll"
    /\ IF ~PollsBrowser(w_cond)
       THEN w_pc' = "idle_sleep" /\ w_wake' = w_now + w_idle_ms
       ELSE w_pc' = "eval" /\ UNCHANGED w_wake
    /\ UNCHANGED <<w_cond, w_timeout_ms, w_idle_ms, w_now, w_evals, w_eval_at,
                   w_result, w_end>>
    /\ UNCHANGED beside_wait

\* the command of a tick comes back and the arm is run to its end
EvalEnds(out) ==
    /\ w_pc = "eval"
    /\ w_evals' = Append(w_evals, out)
    /\ w_eval_at' = w_now
    /\ IF TickResult(w_cond, out) = "continue"
       THEN /\ w_pc' = "sleep"
            /\ w_wake' = w_now + PollMs
            /\ UNCHANGED <<w_result, w_end>>
       ELSE /\ WaitReturns(IF TickResult(w_cond, out) = "break"
                           THEN "inner_ok" ELSE "inner_err")
            /\ UNCHANGED w_wake
    /\ UNCHANGED <<w_cond, w_timeout_ms, w_idle_ms, w_now>>
    /\ UNCHANGED beside_wait

\* the sleep between two ticks is over
SleepEnds ==
    /\ w_pc = "sleep"
    /\ w_now >= w_wake
    /\ w_pc' = "poll"
    /\ UNCHANGED <<w_cond, w_timeout_ms, w_idle_ms, w_now, w_wake, w_evals,
                   w_eval_at, w_result, w_end>>
    /\ UNCHANGED beside_wait

\* NetworkIdle's sleep is over: `break`
IdleEnds ==
    /\ w_pc = "idle_sleep"
    /\ w_now >= w_wake
    /\ w_evals' = Append(w_evals, "true")
    /\ w_eval_at' = w_now
    /\ WaitReturns("inner_ok")
    /\ UNCHANGED <<w_cond, w_timeout_ms, w_idle_ms, w_now, w_wake>>
    /\ UNCHANGED beside_wait

\* the deadline has come with the block suspended: Err(Elapsed), the block
\* is dropped
WaitElapses ==
    /\ w_pc \in {"eval", "sleep", "idle_sleep"}
    /\ DeadlineArmed(w_pc)
    /\ w_now >= w_timeout_ms
    /\ WaitReturns("elapsed")
    /\ UNCHANGED <<w_cond, w_timeout_ms, w_idle_ms, w_now, w_wake, w_evals,
                   w_eval_at>>
    /\ UNCHANGED beside_wait

\* time passes while the call is suspended; a timer that is due fires
\* before the clock moves on
WaitTick ==
    /\ w_pc \in {"eval", "sleep", "idle_sleep"}
    /\ w_now < Horizon
    /\ DeadlineArmed(w_pc) => w_now < w_timeout_ms
    /\ w_pc \in {"sleep", "idle_sleep"} => w_now < w_wake
    /\ w_now' = w_now + HalfPoll
    /\ UNCHANGED <<w_pc, w_cond, w_timeout_ms, w_idle_ms, w_wake, w_evals,
                   w_eval_at, w_result, w_end>>
    /\ UNCHANGED beside_wait

WaitNext ==
    \/ WaitPolls
    \/ \E out \in EvalOutcomes : EvalEnds(out)
    \/ SleepEnds
    \/ IdleEnds
    \/ WaitElapses
    \/ WaitTick

WaitSpec == WaitInit /\ [][WaitNext]_vars

\* ---- AccessibilityManager: the searches ----

RECURSIVE search_nodes_by_role(_, _), role_of_children(_, _)
RECURSIVE role_of_children_reversed(_, _)

\* the node itself when its role holds the target, then each child's matches
search_nodes_by_role(node, target_role) ==
    (IF /\ node.role.some
        /\ contains(to_lowercase(node.role.str), to_lowercase(target_role))
     THEN <<node>> ELSE <<>>)
        \o role_of_children(node.children, target_role)

\* the children of a node visited from the last to the first
role_of_children_reversed(children, target_role) ==
    IF children = <<>> THEN <<>>
    ELSE role_of_children_reversed(Tail(children), target_role)
             \o search_nodes_by_role(Head(children), target_role)

\* `for child in &node.children { results.extend(...) }`
role_of_children(children, target_role) ==
    IF children = <<>> THEN <<>>
    ELSE search_nodes_by_role(Head(children), target_role)
             \o role_of_children(Tail(children), target_role)

\* `.map(|n| n.to_lowercase().contains(&text_lower)).unwrap_or(false)`
holds_text(field, text) ==
    field.some /\ contains(to_lowercase(field.str), to_lowercase(text))

\* a node is taken for its text whether or not it is clickable
TextMatchesAnyNode(node, text) ==
    \/ holds_text(node.name, text)
    \/ holds_text(node.description, text)
    \/ holds_text(node.value, text)

\* `if node.clickable { let matches = name || description || value; ... }`
TextMatches(node, text) ==
    /\ node.clickable
    /\ \/ holds_text(node.name, text)
       \/ holds_text(node.description, text)
       \/ holds_text(node.value, text)

RECURSIVE search_clickable_by_text(_, _), text_of_children(_, _)

search_clickable_by_text(node, text) ==
    (IF TextMatches(node, text) THEN <<node>> ELSE <<>>)
        \o text_of_children(node.children, text)

text_of_children(children, text) ==
    IF children = <<>> THEN <<>>
    ELSE search_clickable_by_text(Head(children), text)
             \o text_of_children(Tail(children), text)

\* the top left corner of a box, in half pixels
Corner(b) == [x |-> 2 * b.x, y |-> 2 * b.y]

\* (x + width / 2.0, y + height / 2.0), in half pixels
Center(b) == [x |-> 2 * b.x + b.width, y |-> 2 * b.y + b.height]

\* get_center_coords: Option<(f64, f64)>
get_center_coords(node) ==
    IF node.bounds.some
    THEN [some |-> TRUE, x |-> Center(node.bounds).x, y |-> Center(node.bounds).y]
    ELSE [some |-> FALSE, x |-> 0, y |-> 0]

\* the tree is fetched whether or not one is cached
TreeFetchedAlways(cache, fetched) ==
    IF fetched
    THEN [ok |-> TRUE, cache |-> Snapshot(l_gen),
          cmds |-> <<Cmd("Accessibility.getFullAXTree")>>]
    ELSE [ok |-> FALSE, cache |-> NoTree,
          cmds |-> <<Cmd("Accessibility.getFullAXTree")>>]

\* `if let Some(ref cached) = self.cached_tree { cached.clone() } else {
\* self.get_full_tree().await? }`: get_full_tree sends the command and, when
\* the reply parses, stores the tree before it returns it
TreeForSearch(cache, fetched) ==
    IF cache.some
    THEN [ok |-> TRUE, cache |-> cache, cmds |-> <<>>]
    ELSE IF fetched
    THEN [ok |-> TRUE, cache |-> Snapshot(l_gen),
          cmds |-> <<Cmd("Accessibility.getFullAXTree")>>]
    ELSE [ok |-> FALSE, cache |-> cache,
          cmds |-> <<Cmd("Accessibility.getFullAXTree")>>]

\* find_by_role and find_clickable_by_text: Ok(nodes), or the fetch's error
find_by_role(role, cache, fetched) ==
    LET t == TreeForSearch(cache, fetched)
    IN  [ok |-> t.ok, cache |-> t.cache, cmds |-> t.cmds,
         nodes |-> IF t.ok THEN search_nodes_by_role(l_tree, role) ELSE <<>>]

find_clickable_by_text(text, cache, fetched) ==
    LET t == TreeForSearch(cache, fetched)
    IN  [ok |-> t.ok, cache |-> t.cache, cmds |-> t.cmds,
         nodes |-> IF t.ok THEN search_clickable_by_text(l_tree, text) ELSE <<>>]

\* ---- Browser: resolving a target ----

\* ElementRef built from an accessibility node
AxRef(node) ==
    [via |-> "ax", node |-> node.node_id, selector |-> FALSE,
     bounds |-> node.bounds]

\* ElementRef built from a DOM node id: `bounds: None`
DomRef(id) ==
    [via |-> "dom", node |-> id, selector |-> TRUE, bounds |-> NoBounds]

\* what one strategy found: "match" with the reference, "zero" when it ran
\* and matched nothing, "error" when it failed for another reason
Found(ref, cache, cmds) ==
    [out |-> "match", ref |-> ref, cache |-> cache, cmds |-> cmds]

Nothing(out, cache, cmds) ==
    [out |-> out, ref |-> NoRef, cache |-> cache, cmds |-> cmds]

\* query_selector_all, then `node_ids[0]`
find_element_by_selector(cache) ==
    IF ~l_sel.ok
    THEN Nothing("error", cache, <<Cmd("DOM.getDocument")>>)
    ELSE IF l_sel.ids = <<>>
    THEN Nothing("zero", cache,
                 <<Cmd("DOM.getDocument"), Cmd("DOM.querySelectorAll")>>)
    ELSE Found(DomRef(l_sel.ids[1]), cache,
               <<Cmd("DOM.getDocument"), Cmd("DOM.querySelectorAll")>>)

\* `nodes.first()` of the nodes a search returned
FirstOf(s) ==
    IF ~s.ok THEN Nothing("error", s.cache, s.cmds)
    ELSE IF s.nodes = <<>> THEN Nothing("zero", s.cache, s.cmds)
    ELSE Found(AxRef(s.nodes[1]), s.cache, s.cmds)

find_element_by_text(text, cache, fetched) ==
    FirstOf(find_clickable_by_text(text, cache, fetched))

find_element_by_role(role, cache, fetched) ==
    FirstOf(find_by_role(role, cache, fetched))

\* the record of one strategy's attempt
Tried(strategy, a) == [strategy |-> strategy, out |-> a.out, ref |-> a.ref]

\* the role is looked up before the text and the selector
StrategiesRoleFirst == <<"role", "text", "selector">>

\* the order of the `if let Ok(..)` blocks of click and
\* find_element_any_strategy
Strategies == <<"selector", "text", "role">>

Attempt(strategy, cache, fetches) ==
    CASE strategy = "selector" -> find_element_by_selector(cache)
      [] strategy = "text" ->
             find_element_by_text(l_query, cache, fetches.text)
      [] strategy = "role" ->
             find_element_by_role(l_query, cache, fetches.role)

RECURSIVE ResolveFrom(_, _, _)

\* the strategies from the k-th on: the first Ok returns, any Err goes on to
\* the next one, and past the last one the target is not found
ResolveFrom(k, cache, fetches) ==
    IF k > Len(Strategies)
    THEN [found |-> FALSE, ref |-> NoRef, cache |-> cache,
          cmds |-> <<>>, tried |-> <<>>]
    ELSE LET a == Attempt(Strategies[k], cache, fetches)
             t == <<Tried(Strategies[k], a)>>
         IN  IF a.out = "match"
             THEN [found |-> TRUE, ref |-> a.ref, cache |-> a.cache,
                   cmds |-> a.cmds, tried |-> t]
             ELSE LET rest == ResolveFrom(k + 1, a.cache, fetches)
                  IN  [found |-> rest.found, ref |-> rest.ref,
                       cache |-> rest.cache, cmds |-> a.cmds \o rest.cmds,
                       tried |-> t \o rest.tried]

\* CdpClient::click_at: the press, then the release, each at (x, y)
click_at(p, sent) ==
    IF ~sent[1]
    THEN [kind |-> "command_error", cmds |-> <<Mouse("mousePressed", p)>>]
    ELSE [kind |-> IF sent[2] THEN "ok" ELSE "command_error",
          cmds |-> <<Mouse("mousePressed", p), Mouse("mouseReleased", p)>>]

\* click_element_ref: at the center of the bounds, else by script, else not
click_element_ref(ref, sent) ==
    IF ref.bounds.some THEN click_at(Center(ref.bounds), sent)
    ELSE IF ref.selector
    THEN [kind |-> IF sent[1] THEN "ok" ELSE "command_error",
          cmds |-> <<Cmd("Runtime.evaluate")>>]
    ELSE [kind |-> "invalid_operation", cmds |-> <<>>]

\* ---- McpServer::handle_tools_call ----

\* the code of every tool failure
InternalError == -32603

\* `Ok(format!("Clicked on: {}", target))` and the like
SuccessText(tool) ==
    CASE tool = "chrome_click" -> "Clicked on: "
      [] tool = "chrome_hover" -> "Hovered over: "
      [] tool = "chrome_navigate" -> "Navigated to: "

\* the McpMessage built from call_tool's Result
ResponseFor(id, tool, r) ==
    IF r.kind = "ok"
    THEN [id |-> id, result |-> Some(<<SuccessText(tool)>>),
          error |-> [some |-> FALSE, code |-> 0, message |-> <<>>]]
    ELSE [id |-> id, result |-> None,
          error |-> [some |-> TRUE, code |-> InternalError,
                     message |-> <<"Tool execution failed: ", r.kind>>]]

ReqIds == {1, 2}

Tools == {"chrome_click", "chrome_hover", "chrome_navigate"}

\* whether the fetch of the tree succeeds, should the text or the role
\* strategy make one: the role strategy fetches only after a fetch failed
FetchOutcomes ==
    { [text |-> TRUE, role |-> TRUE],
      [text |-> FALSE, role |-> TRUE],
      [text |-> FALSE, role |-> FALSE] }

\* whether the first and the second input command are answered: the second
\* is sent only after the first was
SentOutcomes == { <<FALSE, FALSE>>, <<TRUE, FALSE>>, <<TRUE, TRUE>> }

\* a tools/call without the argument its tool needs: the `?` of call_tool
\* returns before the browser is touched
ToolsCallRejected(id, tool) ==
    /\ l_op' = tool
    /\ l_req' = id
    /\ l_tried' = <<>>
    /\ l_cmds' = <<>>
    /\ l_result' = Failed("mcp_protocol_error")
    /\ l_response' = ResponseFor(id, tool, l_result')
    /\ UNCHANGED <<l_tree, l_sel, l_query, l_gen, l_cache>>
    /\ UNCHANGED <<cdp_vars, rd_vars, w_vars, f_vars, s_vars>>

\* a tools/call of chrome_click: Browser::click and the response
ToolsCallClick(id, fetches, sent) ==
    \E r \in {ResolveFrom(1, l_cache, fetches)} :
    \E c \in {click_element_ref(r.ref, sent)} :
        /\ l_op' = "chrome_click"
        /\ l_req' = id
        /\ l_tried' = r.tried
        /\ l_cache' = r.cache
        /\ IF ~r.found
           THEN /\ l_result' = Failed("element_not_found")
                /\ l_cmds' = r.cmds
           ELSE /\ l_result' = IF c.kind = "ok" THEN Ok(r.ref)
                               ELSE Failed(c.kind)
                /\ l_cmds' = r.cmds \o c.cmds
        /\ l_response' = ResponseFor(id, "chrome_click", l_result')
        /\ UNCHANGED <<l_tree, l_sel, l_query, l_gen>>
        /\ UNCHANGED <<cdp_vars, rd_vars, w_vars, f_vars, s_vars>>

\* a tools/call of chrome_hover: Browser::hover and the response
ToolsCallHover(id, fetches, sent) ==
    \E r \in {ResolveFrom(1, l_cache, fetches)} :
        /\ l_op' = "chrome_hover"
        /\ l_req' = id
        /\ l_tried' = r.tried
        /\ l_cache' = r.cache
        /\ IF ~r.found
           THEN /\ l_result' = Failed("element_not_found")
                /\ l_cmds' = r.cmds
           ELSE IF r.ref.bounds.some
           THEN /\ l_result' = IF sent[1] THEN Ok(r.ref)
                               ELSE Failed("command_error")
                /\ l_cmds' = r.cmds \o
                       <<Mouse("mouseMoved", Center(r.ref.bounds))>>
           ELSE /\ l_result' = Ok(r.ref)
                /\ l_cmds' = r.cmds
        /\ l_response' = ResponseFor(id, "chrome_hover", l_result')
        /\ UNCHANGED <<l_tree, l_sel, l_query, l_gen>>
        /\ UNCHANGED <<cdp_vars, rd_vars, w_vars, f_vars, s_vars>>

\* what becomes of the Page.navigate command: not written to the socket,
\* written but not answered in time, or answered
NavOutcomes == {"unsent", "lost", "ok"}

\* a tools/call of chrome_navigate: Browser::navigate and the response;
\* `loaded` is whether wait_for_condition(PageLoad, 30000) returned Ok
ToolsCallNavigate(id, nav, loaded) ==
    /\ l_gen < MaxNavs
    /\ l_op' = "chrome_navigate"
    /\ l_req' = id
    /\ l_tried' = <<>>
    /\ IF nav = "unsent"
       THEN /\ l_result' = Failed("command_error")
            /\ l_cmds' = <<>>
            /\ UNCHANGED <<l_gen, l_cache>>
       ELSE /\ l_cmds' = <<Cmd("Page.navigate")>>
            /\ l_gen' = l_gen + 1
            /\ IF nav = "lost"
               THEN /\ l_result' = Failed("command_error")
                    /\ l_cache' = l_cache
               ELSE IF ~loaded
               THEN /\ l_result' = Failed("timeout")
                    /\ l_cache' = l_cache
               ELSE /\ l_result' = Ok(NoRef)
                    /\ l_cache' = NoTree
    /\ l_response' = ResponseFor(id, "chrome_navigate", l_result')
    /\ UNCHANGED <<l_tree, l_sel, l_query>>
    /\ UNCHANGED <<cdp_vars, rd_vars, w_vars, f_vars, s_vars>>

\* AccessibilityManager::find_by_role called on its own
FindByRole(fetched) ==
    \E s \in {find_by_role(l_query, l_cache, fetched)} :
        /\ l_op' = "find_by_role"
        /\ l_tried' = <<>>
        /\ l_cmds' = s.cmds
        /\ l_cache' = s.cache
        /\ l_result' = IF s.ok THEN OkNodes(s.nodes)
                       ELSE Failed("command_error")
        /\ UNCHANGED <<l_tree, l_sel, l_query, l_gen, l_req, l_response>>
        /\ UNCHANGED <<cdp_vars, rd_vars, w_vars, f_vars, s_vars>>

\* AccessibilityManager::find_clickable_by_text called on its own
FindClickableByText(fetched) ==
    \E s \in {find_clickable_by_text(l_query, l_cache, fetched)} :
        /\ l_op' = "find_clickable_by_text"
        /\ l_tried' = <<>>
        /\ l_cmds' = s.cmds
        /\ l_cache' = s.cache
        /\ l_result' = IF s.ok THEN OkNodes(s.nodes)
                       ELSE Failed("command_error")
        /\ UNCHANGED <<l_tree, l_sel, l_query, l_gen, l_req, l_response>>
        /\ UNCHANGED <<cdp_vars, rd_vars, w_vars, f_vars, s_vars>>

\* one strategy of the resolution run on its own: find_element_by_selector,
\* find_element_by_text or find_element_by_role
FindElement(strategy, fetched) ==
    \E a \in {Attempt(strategy, l_cache, [text |-> fetched, role |-> fetched])} :
        /\ l_op' = strategy
        /\ l_tried' = <<Tried(strategy, a)>>
        /\ l_cmds' = a.cmds
        /\ l_cache' = a.cache
        /\ l_result' = CASE a.out = "match" -> Ok(a.ref)
                          [] a.out = "zero" -> Failed("element_not_found")
                          [] a.out = "error" -> Failed("command_error")
        /\ UNCHANGED <<l_tree, l_sel, l_query, l_gen, l_req, l_response>>
        /\ UNCHANGED <<cdp_vars, rd_vars, w_vars, f_vars, s_vars>>

\* a page with its tree, the answer of its DOM and a target, before any
\* operation
PageInit(trees) ==
    /\ Constructed
    /\ rd_stream = <<>>
    /\ rd_read = <<>>
    /\ NoWait
    /\ NoFrame
    /\ NoServer
    /\ l_tree \in trees
    /\ l_sel \in SelAnswers
    /\ l_query \in Queries
    /\ l_gen = 0
    /\ l_cache = NoTree
    /\ l_op = "none"
    /\ l_tried = <<>>
    /\ l_cmds = <<>>
    /\ l_result = NoResult
    /\ l_req = 0
    /\ l_response = NoResponse

LocInit == PageInit(PageTrees)

LocNext ==
    \/ \E id \in ReqIds, tool \in Tools : ToolsCallRejected(id, tool)
    \/ \E id \in ReqIds, fetches \in FetchOutcomes, sent \in SentOutcomes :
           ToolsCallClick(id, fetches, sent)
    \/ \E id \in ReqIds, fetches \in FetchOutcomes, sent \in SentOutcomes :
           ToolsCallHover(id, fetches, sent)
    \/ \E id \in ReqIds, nav \in NavOutcomes, loaded \in BOOLEAN :
           ToolsCallNavigate(id, nav, loaded)
    \/ \E fetched \in BOOLEAN : FindByRole(fetched)
    \/ \E fetched \in BOOLEAN : FindClickableByText(fetched)

LocSpec == LocInit /\ [][LocNext]_vars

\* the tabs a Browser is switched between
PageTabs == {"t1", "t2"}

\* what becomes of connect_to_tab: an Err before the socket is open, an Err
\* of enable_domains, or Ok
SwitchOutcomes == {"refused", "inactive", "ok"}

\* Browser::switch_to_tab: connect_to_tab stores the tab once the socket is
\* open, and after its Ok the Browser records the tab; cached_tree is not
\* touched
SwitchToTab(t, out) ==
    /\ l_op' = "switch_to_tab"
    /\ l_tried' = <<>>
    /\ l_cmds' = <<>>
    /\ l_result' = IF out = "ok" THEN Ok(NoRef) ELSE Failed("command_error")
    /\ tab_id' = IF out = "refused" THEN tab_id
                  ELSE [tab_id EXCEPT ![BrowserCdp] = t]
    /\ current_tab_id' = IF out = "ok" THEN t ELSE current_tab_id
    /\ UNCHANGED <<l_tree, l_sel, l_query, l_gen, l_cache, l_req, l_response>>
    /\ UNCHANGED <<message_id, pending_requests, clients, pc, call, domain_ix,
                   readers_running, readers_stopped, wire, commands, assigned,
                   activation>>
    /\ UNCHANGED <<rd_vars, w_vars, f_vars, s_vars>>

\* a Browser that is switched between tabs and resolves targets by text and
\* by role
TabInit == PageInit(PageTrees)

TabNext ==
    \/ \E t \in PageTabs, out \in SwitchOutcomes : SwitchToTab(t, out)
    \/ \E strategy \in {"text", "role"}, fetched \in BOOLEAN :
           FindElement(strategy, fetched)

TabSpec == TabInit /\ [][TabNext]_vars

\* ---- CdpClient::click_at, command by command ----

\* the points clicked at
Points == [x : 0..MaxCoord, y : 0..MaxCoord]

\* the release goes out once the press has returned, with Ok or with Err
PressReturned(outs) == Len(outs) = 1

\* the `?` on the press: the function goes on only when it returned Ok
PressSucceeded(outs) == outs = <<"ok">>

\* click_at is not running
ClickIdle == l_op = "none" \/ l_result.kind # "none"

\* the press is sent
ClickAtPress(p) ==
    /\ ClickIdle
    /\ l_op' = "click_at"
    /\ l_cmds' = <<Mouse("mousePressed", p)>>
    /\ l_tried' = <<>>
    /\ l_result' = NoResult
    /\ UNCHANGED <<l_tree, l_sel, l_query, l_gen, l_cache, l_req, l_response>>
    /\ UNCHANGED <<cdp_vars, rd_vars, w_vars, f_vars, s_vars>>

\* send_command returns for the press; an Err is returned by the `?`
ClickAtPressReturns(ok) ==
    /\ l_op = "click_at"
    /\ Len(l_cmds) = 1
    /\ l_tried = <<>>
    /\ l_tried' = <<IF ok THEN "ok" ELSE "command_error">>
    /\ l_result' = IF ok THEN l_result ELSE Failed("command_error")
    /\ UNCHANGED <<l_tree, l_sel, l_query, l_gen, l_cache, l_op, l_cmds,
                   l_req, l_response>>
    /\ UNCHANGED <<cdp_vars, rd_vars, w_vars, f_vars, s_vars>>

\* after the sleep of 50 ms the release is sent, at the same x and y
ClickAtRelease ==
    /\ l_op = "click_at"
    /\ Len(l_cmds) = 1
    /\ PressSucceeded(l_tried)
    /\ l_cmds' = Append(l_cmds, Mouse("mouseReleased", l_cmds[1]))
    /\ UNCHANGED <<l_tree, l_sel, l_query, l_gen, l_cache, l_op, l_tried,
                   l_result, l_req, l_response>>
    /\ UNCHANGED <<cdp_vars, rd_vars, w_vars, f_vars, s_vars>>

\* send_command returns for the release: its Err by the `?`, else Ok(())
ClickAtReleaseReturns(ok) ==
    /\ l_op = "click_at"
    /\ Len(l_cmds) = 2
    /\ Len(l_tried) = 1
    /\ l_tried' = Append(l_tried, IF ok THEN "ok" ELSE "command_error")
    /\ l_result' = IF ok THEN Ok(NoRef) ELSE Failed("command_error")
    /\ UNCHANGED <<l_tree, l_sel, l_query, l_gen, l_cache, l_op, l_cmds,
                   l_req, l_response>>
    /\ UNCHANGED <<cdp_vars, rd_vars, w_vars, f_vars, s_vars>>

ClickInit ==
    /\ Constructed
    /\ rd_stream = <<>>
    /\ rd_read = <<>>
    /\ NoWait
    /\ NoFrame
    /\ NoServer
    /\ l_tree = <<>>
    /\ l_sel = <<>>
    /\ l_query = <<>>
    /\ l_gen = 0
    /\ l_cache = NoTree
    /\ l_op = "none"
    /\ l_tried = <<>>
    /\ l_cmds = <<>>
    /\ l_result = NoResult
    /\ l_req = 0
    /\ l_response = NoResponse

ClickNext ==
    \/ \E p \in Points : ClickAtPress(p)
    \/ \E ok \in BOOLEAN : ClickAtPressReturns(ok)
    \/ ClickAtRelease
    \/ \E ok \in BOOLEAN : ClickAtReleaseReturns(ok)

ClickSpec == ClickInit /\ [][ClickNext]_vars

\* the searches on every tree
SearchInit == PageInit(Trees)

SearchNext ==
    \/ \E fetched \in BOOLEAN : FindByRole(fetched)
    \/ \E fetched \in BOOLEAN : FindClickableByText(fetched)
    \/ \E strategy \in {"selector", "text", "role"}, fetched \in BOOLEAN :
           FindElement(strategy, fetched)

SearchSpec == SearchInit /\ [][SearchNext]_vars

\* ---- serde: CdpMessage to JSON and back ----

\* the Option was kept as it stands in the text: null gives Some(null)
de_option_keeps_null(j) == Present(j)

\* Deserialize for Option<T>: null, like a missing member, is None
de_option(j) == IF j = JNull THEN Absent ELSE Present(j)

\* Serialize for Option<T>: None is written as null, Some(v) as v
ser_option(o) == IF o.some THEN o.val ELSE JNull

\* the derived Serialize of CdpError and CdpMessage: every field is written,
\* in the order of the struct
ser_error(e) ==
    IF e.some
    THEN JObj(<< <<"code", JNum(e.code)>>,
                 <<"message", JStr(e.message)>>,
                 <<"data", ser_option(e.data)>> >>)
    ELSE JNull

to_json(msg) ==
    JObj(<< <<"id", ser_option(msg.id)>>,
            <<"method", ser_option(msg.method)>>,
            <<"params", ser_option(msg.params)>>,
            <<"result", ser_option(msg.result)>>,
            <<"error", ser_error(msg.error)>> >>)

\* the member of an object under a key; a missing member reads as null
Member(obj, key) ==
    IF \E i \in DOMAIN obj.v : obj.v[i][1] = key
    THEN obj.v[CHOOSE i \in DOMAIN obj.v : obj.v[i][1] = key][2]
    ELSE JNull

\* the derived Deserialize of CdpError and CdpMessage
de_error(j) ==
    IF j = JNull THEN NoError
    ELSE [some |-> TRUE,
          code |-> Member(j, "code").v[1],
          message |-> Member(j, "message").v[1],
          data |-> de_option(Member(j, "data"))]

from_json(j) ==
    [id |-> de_option(Member(j, "id")),
     method |-> de_option(Member(j, "method")),
     params |-> de_option(Member(j, "params")),
     result |-> de_option(Member(j, "result")),
     error |-> de_error(Member(j, "error"))]

\* serde_json::to_string(&message)
Serialize ==
    /\ f_pc = "new"
    /\ f_pc' = "encoded"
    /\ f_json' = to_json(f_msg)
    /\ UNCHANGED <<f_msg, f_back>>
    /\ UNCHANGED <<cdp_vars, rd_vars, w_vars, l_vars, s_vars>>

\* serde_json::from_str::<CdpMessage>(&text)
Deserialize ==
    /\ f_pc = "encoded"
    /\ f_pc' = "decoded"
    /\ f_back' = from_json(f_json)
    /\ UNCHANGED <<f_msg, f_json>>
    /\ UNCHANGED <<cdp_vars, rd_vars, w_vars, l_vars, s_vars>>

FrameInit ==
    /\ Constructed
    /\ rd_stream = <<>>
    /\ rd_read = <<>>
    /\ NoWait
    /\ NoPage
    /\ NoServer
    /\ f_pc = "new"
    /\ f_msg \in CdpMessages
    /\ f_json = JNull
    /\ f_back = EmptyMessage

FrameNext ==
    \/ Serialize
    \/ Deserialize

FrameSpec == FrameInit /\ [][FrameNext]_vars

\* ---- McpServer::run_stdio ----

\* the code of the answer to an unknown method
MethodNotFound == -32601

\* the ids of the lines: 0 stands for a message without id
LineIds == {0} \cup ReqIds

\* the `method` of a message; "none" when it has none, "other" for a method
\* handle_message does not know
Methods == {"initialize", "tools/list", "tools/call", "ping", "other", "none"}

\* a line of stdin: blank after trim, text that does not deserialize as an
\* McpMessage ("garbage"), or a message; `params` is whether a tools/call
\* carries params with a tool name
Lines ==
    { [kind |-> k, id |-> 0, method |-> "none", params |-> FALSE] :
          k \in {"blank", "garbage"} }
    \cup { [kind |-> "message", id |-> i, method |-> m, params |-> FALSE] :
               i \in LineIds, m \in Methods }
    \cup { [kind |-> "message", id |-> i, method |-> "tools/call",
            params |-> TRUE] : i \in LineIds }

\* serde_json::from_str::<McpMessage>(line) is Ok
Parses(line) == line.kind = "message"

\* a response with a result, and one with an error
McpResult(id, what) ==
    [id |-> id, result |-> Some(<<what>>),
     error |-> [some |-> FALSE, code |-> 0, message |-> <<>>]]

McpErr(id, code, text) ==
    [id |-> id, result |-> None,
     error |-> [some |-> TRUE, code |-> code, message |-> <<text>>]]

\* an error of handle_message is answered by nothing
OnErrorSilent(line) == <<>>

\* an error of handle_message is answered whether or not the line parses
OnErrorAlways(line) == <<McpErr(line.id, InternalError, "error")>>

\* the Err arm of run_stdio: `if let Ok(msg) = serde_json::from_str(line)`
\* answers with msg.id and -32603, and a line that does not parse is
\* answered by nothing
OnError(line) ==
    IF Parses(line) THEN <<McpErr(line.id, InternalError, "error")>>
    ELSE <<>>

\* handle_message on a line that needs no Browser: Err("Invalid JSON"), or
\* Ok with the response, if any
handle_message(line) ==
    IF ~Parses(line) THEN [ok |-> FALSE, resp |-> <<>>]
    ELSE [ok |-> TRUE,
          resp |-> CASE line.method = "tools/list" ->
                            <<McpResult(line.id, "tools")>>
                     [] line.method = "ping" -> <<McpResult(line.id, "{}")>>
                     [] line.method = "other" ->
                            <<McpErr(line.id, MethodNotFound,
                                     "Method not found: ")>>
                     [] line.method = "none" -> <<>>]

\* the line being handled
CurrentLine == s_read[Len(s_read)]

\* the lines whose handling calls the Browser
NeedsBrowser(line) ==
    Parses(line) /\ line.method \in {"initialize", "tools/call"}

\* `if let Some(resp) = response { write, flush }`, then the loop goes round
Respond(resp) ==
    IF resp = <<>>
    THEN s_pc' = "read" /\ s_out' = <<>>
    ELSE s_pc' = "write" /\ s_out' = resp

\* read_line returns a line; a line that is empty after trim is skipped
ReadLine(line) ==
    /\ s_pc = "read"
    /\ Len(s_read) < MaxLines
    /\ s_read' = Append(s_read, line)
    /\ s_pc' = IF line.kind = "blank" THEN "read" ELSE "handle"
    /\ UNCHANGED <<s_out, s_stdout, s_browser>>
    /\ UNCHANGED <<cdp_vars, rd_vars, w_vars, l_vars, f_vars>>

\* read_line returns Ok(0) or Err: `break`, and run_stdio returns Ok(())
ReadEnds ==
    /\ s_pc = "read"
    /\ s_pc' = "stopped"
    /\ UNCHANGED <<s_read, s_out, s_stdout, s_browser>>
    /\ UNCHANGED <<cdp_vars, rd_vars, w_vars, l_vars, f_vars>>

\* handle_message on a line that does not parse, or on tools/list, ping, an
\* unknown method or no method
HandleLine ==
    /\ s_pc = "handle"
    /\ ~NeedsBrowser(CurrentLine)
    /\ \E r \in {handle_message(CurrentLine)} :
           Respond(IF r.ok THEN r.resp ELSE OnError(CurrentLine))
    /\ UNCHANGED <<s_read, s_stdout, s_browser>>
    /\ UNCHANGED <<cdp_vars, rd_vars, w_vars, l_vars, f_vars>>

\* handle_initialize: browser.connect(None), whose error is only logged,
\* then the result
HandleInitialize ==
    /\ s_pc = "handle"
    /\ Parses(CurrentLine)
    /\ CurrentLine.method = "initialize"
    /\ s_browser' = s_browser \cup {Len(s_read)}
    /\ Respond(<<McpResult(CurrentLine.id, "protocolVersion")>>)
    /\ UNCHANGED <<s_read, s_stdout>>
    /\ UNCHANGED <<cdp_vars, rd_vars, w_vars, l_vars, f_vars>>

\* handle_tools_call: without params or tool name the `?` returns Err, which
\* run_stdio answers; else call_tool is awaited
HandleToolsCall ==
    /\ s_pc = "handle"
    /\ Parses(CurrentLine)
    /\ CurrentLine.method = "tools/call"
    /\ IF CurrentLine.params
       THEN s_pc' = "tool" /\ s_out' = <<>>
       ELSE Respond(OnError(CurrentLine))
    /\ UNCHANGED <<s_read, s_stdout, s_browser>>
    /\ UNCHANGED <<cdp_vars, rd_vars, w_vars, l_vars, f_vars>>

\* call_tool returns, having called the Browser or not (an unknown tool, a
\* missing argument): Ok becomes a result, Err an error of code -32603
ToolReturns(ok, touched) ==
    /\ s_pc = "tool"
    /\ s_browser' = IF touched THEN s_browser \cup {Len(s_read)}
                    ELSE s_browser
    /\ Respond(<<IF ok THEN McpResult(CurrentLine.id, "content")
                 ELSE McpErr(CurrentLine.id, InternalError,
                             "Tool execution failed: ")>>)
    /\ UNCHANGED <<s_read, s_stdout>>
    /\ UNCHANGED <<cdp_vars, rd_vars, w_vars, l_vars, f_vars>>

\* write_all, write_all, flush: each `?` returns its error from run_stdio
WriteResponse(ok) ==
    /\ s_pc = "write"
    /\ s_out' = <<>>
    /\ IF ok
       THEN /\ s_stdout' = Append(s_stdout,
                                  [line |-> Len(s_read), msg |-> s_out[1]])
            /\ s_pc' = "read"
       ELSE /\ s_pc' = "failed"
            /\ UNCHANGED s_stdout
    /\ UNCHANGED <<s_read, s_browser>>
    /\ UNCHANGED <<cdp_vars, rd_vars, w_vars, l_vars, f_vars>>

ServeInit ==
    /\ Constructed
    /\ rd_stream = <<>>
    /\ rd_read = <<>>
    /\ NoWait
    /\ NoPage
    /\ NoFrame
    /\ s_pc = "read"
    /\ s_read = <<>>
    /\ s_out = <<>>
    /\ s_stdout = <<>>
    /\ s_browser = {}

ServeNext ==
    \/ \E line \in Lines : ReadLine(line)
    \/ ReadEnds
    \/ HandleLine
    \/ HandleInitialize
    \/ HandleToolsCall
    \/ \E ok \in BOOLEAN, touched \in BOOLEAN : ToolReturns(ok, touched)
    \/ \E ok \in BOOLEAN : WriteResponse(ok)

ServeSpec == ServeInit /\ [][ServeNext]_vars

\* ---- the claims ----

Returned(c) == pc[c] = "done"
FromReply(c) == Returned(c) /\ call[c].outcome.kind \in {"ok", "protocol"}
\* a table entry whose receiver is gone
Stale(i) == i \in pending_requests /\ Receiver(i) = {}
\* the errors of a call that could not reach the browser
ConnectionErrors == {"conn", "bad_tab_list", "tab_not_found", "url", "ws"}

\* C1: the value or protocol error a caller gets comes from a frame whose id
\* is the id assigned to that caller's request
C1_CorrelationByIdOnly ==
    \A c \in Clients :
        FromReply(c) => Head(call[c].chan).id = call[c].id

\* C2: the first id is 1, ids strictly increase in the order the counter was
\* read (so all are distinct), across clones, and an id once read is never
\* given out again, whatever became of its call
C2_IdsUniqueIncreasing ==
    /\ assigned # <<>> => assigned[1] = 1
    /\ \A j, k \in 1..Len(assigned) : j < k => assigned[j] < assigned[k]
    /\ \A k \in 1..Len(assigned) : assigned[k] < message_id

\* two clients hold ids at once, one of them after a failed call of the other
C2_Witness ==
    \E c, d \in Clients :
        /\ c # d
        /\ Returned(c) /\ call[c].outcome.kind = "timeout"
        /\ pc[d] = "insert"
        /\ call[d].id > call[c].id

\* C3: while a request with id i is in send_message's hands and not yet
\* written, the table holds a waiter for i
C3_RegisteredBeforeSend ==
    \A c \in Clients :
        pc[c] \in {"send", "write"} => call[c].id \in pending_requests

\* a frame is about to be written while a reader is running
C3_Witness ==
    \E c \in Clients :
        pc[c] = "write" /\ call[c].id \in pending_requests /\ readers_running > 0

\* C4: once a call has ended in any way the table has no entry for its id,
\* and the table is empty whenever no call is in flight
C4_PendingHygiene ==
    /\ \A c \in Clients : Returned(c) => call[c].id \notin pending_requests
    /\ (\A c \in Clients : pc[c] \in {"idle", "enable", "done"})
          => pending_requests = {}

\* C5: a call that returned Timeout keeps that outcome; a late reply for its
\* id is dropped: only that id's entry leaves the table, no call and no
\* caller changes, and the reader runs on; an outcome comes from the timeout
\* with an empty channel or from a delivered frame, never both
C5_TimeoutExclusive ==
    [][/\ \A c \in Clients :
              (Returned(c) /\ call[c].outcome.kind = "timeout" /\ pc'[c] = "done")
                  => call'[c] = call[c]
       /\ \A i \in pending_requests :
              (Stale(i) /\ i \notin pending_requests')
                  => /\ pending_requests' = pending_requests \ {i}
                     /\ call' = call
                     /\ pc' = pc
                     /\ readers_running' = readers_running
       /\ \A c \in Clients :
              pc'[c] = "done" =>
                  /\ call'[c].outcome.kind = "timeout" => call'[c].chan = <<>>
                  /\ call'[c].outcome.kind \in {"ok", "protocol"}
                         => call'[c].chan # <<>>
      ]_vars

\* the late reply of a timed-out call was dropped while another call waits
C5_Witness ==
    \E c, d \in Clients :
        /\ c # d
        /\ Returned(c) /\ call[c].outcome.kind = "timeout"
        /\ call[c].id \in wire /\ call[c].id \notin pending_requests
        /\ pc[d] = "wait" /\ call[d].chan = <<>>
        /\ call[d].id \in pending_requests
        /\ readers_running > 0

\* C6: a frame with an error object gives a protocol error carrying it, also
\* when a result is present; otherwise the result is returned, an absent
\* result as null
C6_ReplyInterpretation ==
    \A c \in Clients :
        FromReply(c) =>
            /\ call[c].chan # <<>>
            /\ LET f == Head(call[c].chan) IN
                 call[c].outcome =
                    IF f.error # "none"
                    THEN [kind |-> "protocol", val |-> f.error]
                    ELSE IF f.result = "absent"
                         THEN [kind |-> "ok", val |-> "null"]
                         ELSE [kind |-> "ok", val |-> f.result]

\* a frame with both an error and a result came back as a protocol error
C6_Witness ==
    \E c \in Clients :
        /\ FromReply(c)
        /\ Head(call[c].chan).error = "boom"
        /\ Head(call[c].chan).result = "v"
        /\ call[c].outcome = [kind |-> "protocol", val |-> "boom"]

\* C7: when a reader leaves its loop, every waiter pending at that moment is
\* resolved and leaves the table
C7_ReaderStopResolvesAll ==
    [][readers_stopped' > readers_stopped =>
          \A c \in Clients :
              (pc[c] \in InFlight /\ call[c].id \in pending_requests
                                  /\ call[c].chan = <<>>)
                  => /\ call'[c].chan # <<>>
                     /\ call[c].id \notin pending_requests'
      ]_vars

\* C8: a call issued after the reader stopped writes no frame, does not wait
\* for a reply, and ends in a connection error
C8_ClosedFailsFast ==
    \A c \in Clients :
        call[c].afterClose =>
            /\ call[c].id \notin wire
            /\ pc[c] \notin {"read", "wait"}
            /\ Returned(c) => call[c].outcome.kind \in ConnectionErrors

\* C9: a command on a client without a tab registers no waiter, does not
\* wait for a reply, and ends in a connection error, not a timeout
C9_FailFastOutsideReady ==
    \A c \in clients :
        (tab_id[c] = NoTab /\ pc[c] \in InFlight \cup {"done"}) =>
            /\ call[c].id \notin pending_requests
            /\ pc[c] # "wait"
            /\ Returned(c) => call[c].outcome.kind \in ConnectionErrors

\* C10: every send_command that has taken its id returns
C10_EveryCallReturns ==
    \A c \in Clients : (pc[c] = "insert") ~> (pc[c] = "done")

\* a call that holds a socket of its own: send_message's ws_stream, from
\* connect_async to the end of the block
OwnSocket(c) == pc[c] \in {"write", "read"}
\* the calls that read inbound frames and remove waiters themselves
SocketReaders == {c \in Clients : pc[c] = "read"}

\* C11: once the activation of a connection has failed, that connection is
\* closed (its reader has stopped), and a command issued on the client
\* afterwards writes no frame, waits for no reply and ends in a connection
\* error
C11_ActivationAtomic ==
    activation = "failed" =>
        /\ pc[BrowserCdp] \notin {"write", "read", "wait"}
        /\ Returned(BrowserCdp)
              => call[BrowserCdp].outcome.kind \in ConnectionErrors
        /\ Closed

\* C13: at most one task reads inbound frames and removes waiters
C13_SingleReader ==
    readers_running + Cardinality(SocketReaders) <= 1

\* C14: no send_command opens a socket: every frame goes out on the socket
\* of connect_to_tab
C14_SinglePersistentConnection ==
    \A c \in Clients : ~OwnSocket(c)

\* C15: a frame without an id reaches no waiter's channel, so none is
\* returned as the result of a call
C15_EventsNeverComplete ==
    \A c \in Clients :
        \A k \in 1..Len(call[c].chan) : call[c].chan[k].id # NoId

\* the connection of Browser.cdp is open and its domains are enabled
Ready == activation = "done" /\ readers_running > 0 /\ pc[BrowserCdp] = "idle"

\* C12: a connect to the tab of a ready connection leaves the connection as
\* it was: no socket is opened (no reader is added) and no domain is enabled
\* again
C12_ConnectIdempotent ==
    [][(Ready /\ tab_id'[BrowserCdp] = tab_id[BrowserCdp])
          => /\ readers_running' <= readers_running
             /\ domain_ix' = 0
             /\ activation' = "done"
      ]_vars

\* the reader takes the next message of the stream in this step
Taking == rd_read' # rd_read
\* a decoded frame with an id
IsReply(m) == m.kind = "text" /\ m.frame.id # NoId

\* C16: when the reader takes a frame whose id has no table entry, the table
\* and every call stay as they are and the reader stays in its loop
C16_UnknownIdDropped ==
    [][(Taking /\ IsReply(Head(rd_stream))
               /\ Head(rd_stream).frame.id \notin pending_requests)
          => /\ pending_requests' = pending_requests
             /\ call' = call
             /\ pc' = pc
             /\ readers_running' = readers_running
             /\ readers_running' > 0
      ]_vars

\* a reply came twice: the second was dropped with waiters still pending and
\* the reader running
C16_Witness ==
    /\ \E j, k \in 1..Len(rd_read) :
          j < k /\ IsReply(rd_read[k]) /\ rd_read[j] = rd_read[k]
                /\ k = Len(rd_read)
    /\ pending_requests # {}
    /\ readers_running > 0

\* C17: text that does not decode leaves the table, the calls and the reader
\* as they are; the reader is in its loop as long as no close or error came;
\* and a reply taken for an id in the table, whatever came before it, leaves
\* the table and reaches the channel of the call that waits for it
C17_MalformedRecovered ==
    [][/\ (Taking /\ Head(rd_stream).kind = "bad_text")
            => /\ pending_requests' = pending_requests
               /\ call' = call
               /\ readers_running' = readers_running
       /\ (\A k \in 1..Len(rd_read') : rd_read'[k].kind \notin {"close", "error"})
            => readers_running' > 0
       /\ (Taking /\ IsReply(Head(rd_stream))
                   /\ Head(rd_stream).frame.id \in pending_requests)
            => LET f == Head(rd_stream).frame IN
                 /\ f.id \notin pending_requests'
                 /\ \A c \in Receiver(f.id) :
                        call'[c].chan = Append(call[c].chan, f)
      ]_vars

\* undecodable text came first, and the reply after it reached its waiter
C17_Witness ==
    \E j, k \in 1..Len(rd_read) :
        /\ j < k
        /\ rd_read[j].kind = "bad_text"
        /\ IsReply(rd_read[k])
        /\ \E c \in Clients :
              /\ call[c].id = rd_read[k].frame.id
              /\ call[c].chan = <<rd_read[k].frame>>
              /\ pc[c] = "wait"

WaitReturned == w_pc = "returned"

\* C18: wait_for_condition returns Ok only when its last tick found the
\* condition true, and a tick that ended with an error of its command gives
\* an error, not Ok
C18_OkOnlyWhenSatisfied ==
    WaitReturned =>
        /\ w_result.kind = "ok"
              => (w_evals # <<>> /\ w_evals[Len(w_evals)] = "true")
        /\ (w_cond # "ElementPresent" /\ w_evals # <<>>
                /\ w_evals[Len(w_evals)] = "error")
              => w_result.kind = "error"

\* C19: the tick that finds the condition true is the last one, and the
\* call returns Ok at that very moment
C19_EarlyExit ==
    \A k \in 1..Len(w_evals) :
        w_evals[k] = "true" =>
            /\ k = Len(w_evals)
            /\ WaitReturned
            /\ w_result = WaitOk
            /\ w_end = w_eval_at

\* the third tick found the condition true, with time left to the deadline
C19_Witness ==
    /\ WaitReturned
    /\ w_cond # "NetworkIdle"
    /\ w_evals = <<"false", "false", "true">>
    /\ w_end < w_timeout_ms

C21_NetworkIdlePureElapse ==
    w_cond = "NetworkIdle" =>
        /\ w_pc # "eval"
        /\ WaitReturned =>
              /\ w_idle_ms < w_timeout_ms
                    => (w_result.kind = "ok" /\ w_end = w_idle_ms)
              /\ w_idle_ms > w_timeout_ms
                    => /\ w_result = [kind |-> "timeout", timeout |-> w_timeout_ms]
                       /\ w_end = w_timeout_ms

\* a quiet period shorter than the deadline has elapsed and the call
\* returned Ok
C21_Witness ==
    /\ w_cond = "NetworkIdle"
    /\ WaitReturned
    /\ 0 < w_idle_ms /\ w_idle_ms < w_timeout_ms
    /\ w_result.kind = "ok"
    /\ w_end = w_idle_ms

\* the operation that ran last resolved a target
Resolving == l_op \in {"chrome_click", "chrome_hover"} /\ l_tried # <<>>

\* the strategy that matched, when one did
Winner == l_tried[Len(l_tried)]

\* C22: resolution tries the selector, then the text, then the role; the
\* first strategy that matches ends it and gives the reference, nothing is
\* tried after it, and a target that a selector matches resolves to the DOM
\* node of the selector whatever the accessibility tree holds
C22_StrategyOrder ==
    Resolving =>
        /\ \A i \in DOMAIN l_tried :
               /\ l_tried[i].strategy = <<"selector", "text", "role">>[i]
               /\ l_tried[i].out = "match" => i = Len(l_tried)
        /\ Len(l_tried) < 3 => Winner.out = "match"
        /\ (l_sel.ok /\ l_sel.ids # <<>>) =>
               /\ Len(l_tried) = 1
               /\ Winner.ref.via = "dom"
               /\ \A i \in DOMAIN l_cmds :
                      l_cmds[i].method # "Accessibility.getFullAXTree"
        /\ l_result.kind = "ok" => l_result.ref = Winner.ref

\* a hover whose target matches both a selector and a role of the tree
C22_Witness ==
    /\ l_op = "chrome_hover"
    /\ l_sel.ok /\ l_sel.ids # <<>>
    /\ search_nodes_by_role(l_tree, l_query) # <<>>
    /\ l_result.kind = "ok"
    /\ l_result.ref.via = "dom"
    /\ Len(l_tried) = 1

\* C23: a resolution ends in ElementNotFound only when all three strategies
\* ran and each of them matched nothing; a strategy that failed for another
\* reason is not reported as not-found
C23_NotFoundOnlyOnZeroMatches ==
    (Resolving /\ l_result.kind = "element_not_found") =>
        /\ Len(l_tried) = 3
        /\ \A i \in DOMAIN l_tried : l_tried[i].out = "zero"

Range(s) == { s[i] : i \in DOMAIN s }

\* the nodes of a tree, and their listing with a node before its children
\* and the children from left to right
RECURSIVE NodesOf(_)
NodesOf(node) ==
    {node} \cup UNION { NodesOf(node.children[i]) : i \in DOMAIN node.children }

RECURSIVE Preorder(_), PreorderAll(_)
Preorder(node) == <<node.node_id>> \o PreorderAll(node.children)

PreorderAll(children) ==
    IF children = <<>> THEN <<>>
    ELSE Preorder(Head(children)) \o PreorderAll(Tail(children))

\* where a node stands in the pre-order of the page's tree
PreorderRank(id) ==
    CHOOSE i \in DOMAIN Preorder(l_tree) : Preorder(l_tree)[i] = id

\* the node ids of the nodes a search returned, in the order returned
ReturnedIds == [i \in DOMAIN l_result.nodes |-> l_result.nodes[i].node_id]

Searched == l_op \in {"find_by_role", "find_clickable_by_text"}

\* C24: a search returns its matches in pre-order, each once; the reference
\* of the text or role strategy is the match that comes first in pre-order,
\* and the reference of the selector strategy is the first node id of the
\* query's answer
C24_FirstMatchInTraversalOrder ==
    /\ (Searched /\ l_result.kind = "ok") =>
           \A i, j \in DOMAIN ReturnedIds :
               i < j => PreorderRank(ReturnedIds[i]) < PreorderRank(ReturnedIds[j])
    /\ (l_op = "role" /\ l_result.kind = "ok") =>
           /\ l_result.ref.via = "ax"
           /\ \E n \in Range(search_nodes_by_role(l_tree, l_query)) :
                  l_result.ref = AxRef(n)
           /\ \A n \in NodesOf(l_tree) :
                  n \in Range(search_nodes_by_role(l_tree, l_query)) =>
                      PreorderRank(l_result.ref.node) <= PreorderRank(n.node_id)
    /\ (l_op = "text" /\ l_result.kind = "ok") =>
           /\ l_result.ref.via = "ax"
           /\ \E n \in Range(search_clickable_by_text(l_tree, l_query)) :
                  l_result.ref = AxRef(n)
           /\ \A n \in NodesOf(l_tree) :
                  n \in Range(search_clickable_by_text(l_tree, l_query)) =>
                      PreorderRank(l_result.ref.node) <= PreorderRank(n.node_id)
    /\ (l_op = "selector" /\ l_result.kind = "ok") =>
           l_result.ref = DomRef(Head(l_sel.ids))

\* a role search that returned two children of the root, the left one first
C24_Witness ==
    /\ l_op = "find_by_role"
    /\ l_result.kind = "ok"
    /\ Len(l_tree.children) = 2
    /\ ReturnedIds = <<l_tree.children[1].node_id, l_tree.children[2].node_id>>

\* two characters that differ at most in case
SameLetter(a, b) == LowerChar(a) = LowerChar(b)

\* `pat` occurs in `s` when case is ignored
OccursIgnoringCase(s, pat) ==
    \E off \in 0..(Len(s) - Len(pat)) :
        \A j \in 1..Len(pat) : SameLetter(s[off + j], pat[j])

\* C25: the text search returns exactly the clickable nodes whose name,
\* description or value holds the text, case ignored, so never a node that
\* is not clickable; the role search returns exactly the nodes whose role
\* holds the target, case ignored
C25_TextSelectsInteractiveOnly ==
    /\ (l_op = "find_clickable_by_text" /\ l_result.kind = "ok") =>
           /\ Range(l_result.nodes) =
                  { n \in NodesOf(l_tree) :
                        /\ n.clickable
                        /\ \E f \in {n.name, n.description, n.value} :
                               f.some /\ OccursIgnoringCase(f.str, l_query) }
           /\ \A n \in Range(l_result.nodes) : n.clickable
    /\ (l_op = "find_by_role" /\ l_result.kind = "ok") =>
           Range(l_result.nodes) =
               { n \in NodesOf(l_tree) :
                     n.role.some /\ OccursIgnoringCase(n.role.str, l_query) }

\* a text search that returned a clickable node and left out a node that is
\* not clickable although its name holds the text
C25_Witness ==
    /\ l_op = "find_clickable_by_text"
    /\ l_result.kind = "ok"
    /\ l_result.nodes # <<>>
    /\ \E n \in NodesOf(l_tree) :
           /\ ~n.clickable
           /\ n.name.some /\ OccursIgnoringCase(n.name.str, l_query)
           /\ n \notin Range(l_result.nodes)

C27_LazySnapshotCache ==
    [][ (l_op' \in {"find_by_role", "find_clickable_by_text"}) =>
            IF l_cache.some
            THEN /\ l_cmds' = <<>>
                 /\ l_cache' = l_cache
                 /\ l_result'.kind = "ok"
            ELSE /\ l_cmds' = <<Cmd("Accessibility.getFullAXTree")>>
                 /\ l_result'.kind = "ok" => l_cache' = Snapshot(l_gen)
                 /\ l_result'.kind # "ok" => l_cache' = NoTree ]_vars

\* a search answered from the cache, nothing sent
C27_Witness ==
    /\ l_op \in {"find_by_role", "find_clickable_by_text"}
    /\ l_result.kind = "ok"
    /\ l_cache.some
    /\ l_cmds = <<>>

\* a point, in half pixels, is as far from the left edge of a box as from
\* its right edge, and as far from its top as from its bottom
AtCenter(p, b) ==
    /\ p.x - 2 * b.x = 2 * (b.x + b.width) - p.x
    /\ p.y - 2 * b.y = 2 * (b.y + b.height) - p.y

MouseEvents ==
    { i \in DOMAIN l_cmds : l_cmds[i].method = "Input.dispatchMouseEvent" }

\* C28: every mouse event of a click or a hover is dispatched at the center
\* of the bounds of the reference it resolved; a click that succeeded on a
\* reference with bounds sent a press and then a release, both there; and
\* get_center_coords gives the center of a node's bounds, and none for a
\* node without bounds
C28_ClickPointIsCenter ==
    /\ \A i \in MouseEvents :
           /\ Resolving
           /\ Winner.ref.bounds.some
           /\ AtCenter(l_cmds[i], Winner.ref.bounds)
    /\ (l_op = "chrome_click" /\ l_result.kind = "ok" /\ l_result.ref.bounds.some) =>
           \E i \in MouseEvents :
               /\ i + 1 \in MouseEvents
               /\ l_cmds[i].type = "mousePressed"
               /\ l_cmds[i + 1].type = "mouseReleased"
    /\ (l_op = "chrome_hover" /\ l_result.kind = "ok" /\ l_result.ref.bounds.some) =>
           \E i \in MouseEvents : l_cmds[i].type = "mouseMoved"
    /\ \A n \in NodesOf(l_tree) :
           /\ get_center_coords(n).some = n.bounds.some
           /\ n.bounds.some => AtCenter(get_center_coords(n), n.bounds)

\* a click that pressed and released on a box of odd width
C28_Witness ==
    /\ l_op = "chrome_click"
    /\ l_result.kind = "ok"
    /\ l_result.ref.bounds.some
    /\ l_result.ref.bounds.width % 2 = 1
    /\ Len(l_cmds) >= 2
    /\ l_cmds[Len(l_cmds)].type = "mouseReleased"
    /\ AtCenter(l_cmds[Len(l_cmds)], l_result.ref.bounds)

\* an optional value comes back as it was, but for a present null, which
\* comes back absent
BackUpToNull(back, orig) ==
    IF orig = Present(JNull) THEN back = Absent ELSE back = orig

\* the four shapes of a message
Shaped(msg) ==
    \/ msg.id.some /\ msg.method.some /\ ~msg.result.some /\ ~msg.error.some
    \/ msg.id.some /\ ~msg.method.some /\ msg.result.some /\ ~msg.error.some
    \/ msg.id.some /\ ~msg.method.some /\ ~msg.result.some /\ msg.error.some
    \/ ~msg.id.some /\ msg.method.some /\ ~msg.result.some /\ ~msg.error.some

Performed ==
    CASE l_op = "chrome_click" ->
             \/ \E i \in MouseEvents : l_cmds[i].type = "mouseReleased"
             \/ Cmd("Runtime.evaluate") \in Range(l_cmds)
      [] l_op = "chrome_hover" ->
             \E i \in MouseEvents : l_cmds[i].type = "mouseMoved"
      [] l_op = "chrome_navigate" -> Cmd("Page.navigate") \in Range(l_cmds)

\* C30: the response to a tools/call carries the id of the request and
\* exactly one of result and error; a call that failed in the core is
\* answered by an error of code -32603 whose message holds the error and by
\* no result; and a call answered by a result did perform its operation
C30_UnambiguousToolOutcome ==
    l_op \in Tools =>
        /\ l_response.id = l_req
        /\ l_response.result.some # l_response.error.some
        /\ l_result.kind # "ok" =>
               /\ l_response.error.some
               /\ l_response.error.code = InternalError
               /\ l_result.kind \in Range(l_response.error.message)
               /\ ~l_response.result.some
        /\ l_response.result.some => Performed

\* the reader has met nothing that ends its loop
NothingFatalRead == \A i \in DOMAIN rd_read : ReaderGoesOn(rd_read[i])

\* the reply to call c stands at position i of what the reader has read
ReplyReadAt(c, i) ==
    /\ i \in DOMAIN rd_read
    /\ rd_read[i].kind = "text"
    /\ rd_read[i].frame.id = call[c].id

\* C31: the reader is never held up by a hand-off: with a message on the
\* stream it can always take its next turn, whether the caller the frame is
\* for has yet to pick up, has picked up, or has given up; and having handed
\* over a frame, or failed to, it is still in its loop
C31_NonBlockingDispatch ==
    /\ (readers_running > 0 /\ rd_stream # <<>>) => ENABLED ReaderTakes
    /\ NothingFatalRead => readers_running = 1

\* the reply to a caller that had given up was read and dropped, and a reply
\* read after it reached another caller
C31_Witness ==
    \E c1, c2 \in Clients :
        /\ c1 # c2
        /\ call[c1].outcome.kind = "timeout"
        /\ pc[c2] = "done" /\ call[c2].outcome.kind = "ok"
        /\ \E i, j \in DOMAIN rd_read :
               i < j /\ ReplyReadAt(c1, i) /\ ReplyReadAt(c2, j)

\* C33: the enable commands go out in the order Runtime, Page, DOM, Input,
\* Network, Accessibility, one at a time; the next one is begun only when
\* the one before returned Ok; the first that fails ends the loop; and the
\* activation is done only when the sixth returned Ok
C33_ActivationOrder ==
    [][ /\ Domains = <<"Runtime", "Page", "DOM", "Input", "Network",
                       "Accessibility">>
        /\ domain_ix' # domain_ix =>
               \/ /\ domain_ix = 0
                  /\ domain_ix' = 1
                  /\ activation' = "running"
               \/ /\ domain_ix' = domain_ix + 1
                  /\ domain_ix' <= NumDomains
                  /\ Returned(BrowserCdp)
                  /\ call[BrowserCdp].outcome.kind = "ok"
                  /\ activation' = "running"
               \/ /\ domain_ix' = 0
                  /\ Returned(BrowserCdp)
                  /\ \/ call[BrowserCdp].outcome.kind # "ok"
                     \/ domain_ix = NumDomains
        /\ (activation' = "done" /\ activation # "done") =>
               /\ domain_ix = NumDomains
               /\ call[BrowserCdp].outcome.kind = "ok"
        /\ (activation' = "failed" /\ activation # "failed") =>
               /\ call[BrowserCdp].outcome.kind # "ok"
               /\ domain_ix' = 0
               /\ pc'[BrowserCdp] = "idle"
        /\ (pc[BrowserCdp] = "enable" /\ pc'[BrowserCdp] # "enable") =>
               /\ domain_ix' = domain_ix
               /\ domain_ix \in 1..NumDomains
               /\ activation = "running"
      ]_vars

\* connect_to_tab returned Ok: six enable commands were written
C33_Witness ==
    /\ activation = "done"
    /\ domain_ix = 0
    /\ Cardinality(wire) >= NumDomains

\* C32: once connect_to_tab has succeeded on the Browser's client, every
\* clone of it (the one held by the AccessibilityManager, the one held by
\* the ScreenshotManager) sends its commands to the same tab
C32_ManagersFollowConnection ==
    activation = "done" =>
        \A c \in clients : tab_id[c] = tab_id[BrowserCdp]

\* C34: whenever no connect or switch is in progress, the tab the Browser
\* records is the tab its client sends commands to
C34_TabBookkeepingAgrees ==
    pc[BrowserCdp] = "idle" => current_tab_id = tab_id[BrowserCdp]

C36_PressBeforeRelease ==
    l_op = "click_at" =>
        /\ Len(l_cmds) \in 1..2
        /\ l_cmds[1].type = "mousePressed"
        /\ Len(l_cmds) = 2 =>
               /\ l_cmds[2] = Mouse("mouseReleased", l_cmds[1])
               /\ Len(l_tried) >= 1
               /\ l_tried[1] = "ok"
        /\ (Len(l_tried) >= 1 /\ l_tried[1] # "ok") =>
               /\ Len(l_cmds) = 1
               /\ l_result = Failed("command_error")
        /\ l_result.kind = "ok" <=> l_tried = <<"ok", "ok">>
        /\ l_result.kind # "none" =>
               \E sent \in SentOutcomes :
                   /\ \A i \in DOMAIN l_tried : sent[i] <=> l_tried[i] = "ok"
                   /\ click_at(l_cmds[1], sent) =
                          [kind |-> l_result.kind, cmds |-> l_cmds]

\* a press that failed, no release sent, the error returned
C36_Witness ==
    /\ l_op = "click_at"
    /\ l_tried = <<"command_error">>
    /\ l_cmds = <<Mouse("mousePressed", [x |-> 1, y |-> 2])>>
    /\ l_result = Failed("command_error")

\* the operation that ran last resolved its target to a reference
Resolved == Resolving /\ Winner.out = "match"

\* C37: a click on a resolved reference with bounds that returned Ok pressed
\* and released at their center; on one without bounds but with a selector
\* it ran the script; on one with neither it returned InvalidOperation and
\* sent no input; and a hover that returned Ok dispatched a mouseMoved event
C37_ActsOrReportsError ==
    Resolved =>
        /\ (l_op = "chrome_click" /\ Winner.ref.bounds.some /\ l_result.kind = "ok") =>
               /\ Mouse("mousePressed", Center(Winner.ref.bounds)) \in Range(l_cmds)
               /\ Mouse("mouseReleased", Center(Winner.ref.bounds)) \in Range(l_cmds)
        /\ ( /\ l_op = "chrome_click"
             /\ ~Winner.ref.bounds.some
             /\ Winner.ref.selector
             /\ l_result.kind = "ok" ) =>
               Cmd("Runtime.evaluate") \in Range(l_cmds)
        /\ ( /\ l_op = "chrome_click"
             /\ ~Winner.ref.bounds.some
             /\ ~Winner.ref.selector ) =>
               /\ l_result.kind = "invalid_operation"
               /\ MouseEvents = {}
               /\ Cmd("Runtime.evaluate") \notin Range(l_cmds)
        /\ (l_op = "chrome_hover" /\ l_result.kind = "ok") =>
               \E i \in MouseEvents : l_cmds[i].type = "mouseMoved"

\* C37 without its last part: what holds of click_element_ref alone
C37_ClickActsOrReportsError ==
    (Resolved /\ l_op = "chrome_click") => C37_ActsOrReportsError

\* the line names a method
NamesMethod(line) == Parses(line) /\ line.method # "none"

\* the numbers of the lines handled to the end: all that were read, but for
\* the one in progress
Served ==
    IF s_pc \in {"read", "stopped"} THEN 1..Len(s_read)
    ELSE 1..(Len(s_read) - 1)

\* the places on stdout of the responses to line i
Answers(i) == { k \in DOMAIN s_stdout : s_stdout[k].line = i }

\* C38: whenever the server reads, and while it handles a line, every line
\* read before has been handled to the end: stdout holds one response for
\* each of them that names a method, with its id, in the order the lines
\* were read, and nothing else; a response waits to be written only in the
\* writing step; and the one tool call in progress is that of the line in
\* progress
C38_ServedOneAtATime ==
    s_pc # "off" =>
        /\ \A k \in DOMAIN s_stdout :
               /\ s_stdout[k].line \in Served
               /\ NamesMethod(s_read[s_stdout[k].line])
               /\ s_stdout[k].msg.id = s_read[s_stdout[k].line].id
        /\ \A k, m \in DOMAIN s_stdout :
               k < m => s_stdout[k].line < s_stdout[m].line
        /\ \A i \in Served : NamesMethod(s_read[i]) => Answers(i) # {}
        /\ s_out # <<>> <=> s_pc = "write"
        /\ s_pc \in {"handle", "tool", "write", "failed"} => s_read # <<>>
        /\ s_pc = "tool" =>
               /\ CurrentLine.method = "tools/call"
               /\ Answers(Len(s_read)) = {}
        /\ s_browser \subseteq 1..Len(s_read)

\* two requests answered in the order they were read, the second id first
C38_Witness ==
    /\ s_pc = "read"
    /\ Len(s_read) = 2
    /\ s_read[1].method = "tools/call" /\ s_read[1].id = 2
    /\ s_read[2].method = "ping" /\ s_read[2].id = 1
    /\ Len(s_stdout) = 2
    /\ s_stdout[1].msg.id = 2 /\ s_stdout[1].line = 1
    /\ s_stdout[2].msg.id = 1 /\ s_stdout[2].line = 2
    /\ 1 \in s_browser

\* C39: a line that does not parse is answered by nothing and the loop goes
\* on; a message with an unknown method is answered once, by an error of
\* code -32601 with the id of the message and no result; a message without
\* method is answered by nothing; none of them calls the Browser; and
\* run_stdio fails only in writing the response to a line with a method
C39_UnusableInput ==
    s_pc # "off" =>
        /\ \A i \in Served :
               /\ (~Parses(s_read[i]) \/ s_read[i].method = "none") =>
                      /\ Answers(i) = {}
                      /\ i \notin s_browser
               /\ (Parses(s_read[i]) /\ s_read[i].method = "other") =>
                      /\ Cardinality(Answers(i)) = 1
                      /\ \A k \in Answers(i) :
                             /\ s_stdout[k].msg.id = s_read[i].id
                             /\ s_stdout[k].msg.error.some
                             /\ s_stdout[k].msg.error.code = MethodNotFound
                             /\ ~s_stdout[k].msg.result.some
                      /\ i \notin s_browser
        /\ s_pc \in {"write", "tool", "failed"} => NamesMethod(CurrentLine)

\* a line that does not parse went unanswered, and the unknown method of
\* the line after it was answered
C39_Witness ==
    /\ s_pc = "read"
    /\ Len(s_read) = 2
    /\ s_read[1].kind = "garbage"
    /\ s_read[2].method = "other" /\ s_read[2].id = 1
    /\ Len(s_stdout) = 1
    /\ s_stdout[1].line = 2
    /\ s_stdout[1].msg.error.code = MethodNotFound
    /\ s_browser = {}

====
